---- MODULE Spec2Model ----
(***************************************************************************)
(* GraspMind: the three-stage grasp pipeline (src/src/core/pipeline.py and *)
(* its agents), the PreciseSegmentationAgent with its ImagePreprocessor    *)
(* (src/Agents, src/Utiles) and the response parsers, as state machines.   *)
(*                                                                         *)
(* Conventions                                                             *)
(*  - Optional values are sequences of length <= 1: None is << >>.         *)
(*  - A text is a record [chars, doc]: chars is the character sequence;    *)
(*    the element DOC stands for the serialisation of one JSON document    *)
(*    and doc is the value json.loads yields for it.  The repository's     *)
(*    code never looks inside a document before json.loads, so the         *)
(*    characters it does inspect (backticks, "json", newlines, blanks)     *)
(*    are kept literally.                                                  *)
(*  - Source string literals are Chinese; the model uses ASCII names and   *)
(*    gives the literal in a comment.                                      *)
(*  - Python floats are idealised as exact rationals.                      *)
(***************************************************************************)
EXTENDS Integers, Sequences, FiniteSets, TLC

VARIABLES
    pc,           \* position inside GraspMindPipeline.process
    req,          \* the arguments of the current process call and the file behind image_path
    pipeline,     \* the ProcessingPipeline of the current call
    scene_result, \* Optional: local scene_result of process
    strategy,     \* Optional: local strategy of process
    exc,          \* Optional: the exception travelling to process's except block
    ret,          \* what process handed to its caller
    hist,         \* history of the run: stages entered, gateway calls, swallowed failures
    agent,        \* a PreciseSegmentationAgent with its ImagePreprocessor
    agentOut,     \* outcome of the agent's last request
    parsed,       \* last application of a response parser
    mapper,       \* one ImagePreprocessor shared by the requests in flight
    resized,      \* last application of a resize function
    configured,   \* a preprocess_image call with its max_size and quality
    planned,      \* a create_interaction_strategy call with its intent, scene and table
    saver         \* the Output directory and the runs saving their results into it

vars == <<pc, req, pipeline, scene_result, strategy, exc, ret, hist, agent, agentOut, parsed,
         mapper, resized, configured, planned, saver>>

pipelineVars == <<pc, req, pipeline, scene_result, strategy, exc, ret, hist>>

mapperVars == <<mapper, resized, configured, planned, saver>>

None == << >>

Some(v) == <<v>>

(***************************************************************************)
(* Bounds of the model                                                     *)
(***************************************************************************)
\* objects in one detection response
MaxObjects == 2

\* the configured normalisation bound of the pipeline's ImageProcessor
\* (IMAGE_MAX_SIZE, default 1024), scaled down so that mask grids stay small
MaxImageSize == 2

\* boxes in one segmentation answer of the PreciseSegmentationAgent
MaxBoxes == 2

(***************************************************************************)
(* Texts                                                                   *)
(***************************************************************************)
DOC == "<json>"

NL == "\n"

Whitespace == {" ", NL, "\t"}

RECURSIVE lstrip(_)
lstrip(s) == IF s # << >> /\ Head(s) \in Whitespace THEN lstrip(Tail(s)) ELSE s

RECURSIVE rstrip(_)
rstrip(s) ==
    IF s # << >> /\ s[Len(s)] \in Whitespace THEN rstrip(SubSeq(s, 1, Len(s) - 1)) ELSE s

strip(s) == rstrip(lstrip(s))

startswith(s, p) == Len(s) >= Len(p) /\ SubSeq(s, 1, Len(p)) = p

endswith(s, p) == Len(s) >= Len(p) /\ SubSeq(s, Len(s) - Len(p) + 1, Len(s)) = p

\* str.split('\n'): the lines of s, at least one
RECURSIVE split_lines(_)
split_lines(s) ==
    IF \A i \in 1..Len(s) : s[i] # NL
    THEN <<s>>
    ELSE LET k == CHOOSE i \in 1..Len(s) : s[i] = NL /\ \A j \in 1..(i - 1) : s[j] # NL
         IN  <<SubSeq(s, 1, k - 1)>> \o split_lines(SubSeq(s, k + 1, Len(s)))

\* '\n'.join(lines)
RECURSIVE join_lines(_)
join_lines(ls) ==
    IF ls = << >> THEN << >>
    ELSE IF Len(ls) = 1 THEN ls[1]
    ELSE ls[1] \o <<NL>> \o join_lines(Tail(ls))

\* the backtick character
BQ == "BQ"

FENCE == <<BQ, BQ, BQ>>

FENCE_JSON == <<BQ, BQ, BQ, "j", "s", "o", "n">>

\* the lines between the first json-fence line and the next fence line
RECURSIVE fenced_lines(_, _)
fenced_lines(lines, start_found) ==
    IF lines = << >> THEN << >>
    ELSE IF strip(Head(lines)) = FENCE_JSON
         THEN fenced_lines(Tail(lines), TRUE)
    ELSE IF strip(Head(lines)) = FENCE /\ start_found
         THEN << >>
    ELSE IF start_found
         THEN <<Head(lines)>> \o fenced_lines(Tail(lines), start_found)
    ELSE fenced_lines(Tail(lines), start_found)

clean_json_from_markdown(chars) ==
    LET text == strip(chars)
    IN  IF startswith(text, FENCE_JSON)
        THEN join_lines(fenced_lines(split_lines(text), FALSE))
        ELSE IF startswith(text, FENCE) /\ endswith(text, FENCE)
             THEN strip(SubSeq(text, 4, Len(text) - 3))
             ELSE text

\* json.loads: the text must be exactly one JSON document, blanks around it
\* allowed; the value is Some(document), None stands for json.JSONDecodeError
json_loads(chars, doc) == IF strip(chars) = <<DOC>> THEN Some(doc) ELSE None

(***************************************************************************)
(* Data models (src/src/models/data_models.py)                             *)
(***************************************************************************)
\* ObjectCategory values: "unknown object" is the literal of UNKNOWN
ObjectCategory ==
    {"cup", "scissors", "bottle", "knife", "fork", "spoon", "plate", "bowl",
     "book", "pen", "phone", "unknown object"}

\* pydantic validation of DetectedObject(...): bounding_box is a required
\* BoundingBox, category a member of ObjectCategory
DetectedObject_validates(bounding_box, category) ==
    bounding_box # None /\ category \in ObjectCategory

DetectedObject(object_id, label, category, bounding_box, confidence) ==
    [object_id |-> object_id, label |-> label, category |-> category,
     bounding_box |-> bounding_box, confidence |-> confidence]

\* scores in hundredths
FunctionalPart(part_name, safety_score, ergonomic_score, grasp_priority) ==
    [part_name |-> part_name, safety_score |-> safety_score,
     ergonomic_score |-> ergonomic_score, grasp_priority |-> grasp_priority]

InteractionStrategy(target_object, target_part) ==
    [target_object |-> target_object, target_part |-> target_part]

SegmentationMask(mask_array, width, height, target_object_id, target_part_name) ==
    [mask_array |-> mask_array, width |-> width, height |-> height,
     target_object_id |-> target_object_id, target_part_name |-> target_part_name]

SegmentationResult(mask, strategy_used, success, error_message) ==
    [mask |-> mask, strategy_used |-> strategy_used, success |-> success,
     error_message |-> error_message]

ProcessingPipeline(stage, completed_stages) ==
    [stage |-> stage, completed_stages |-> completed_stages, errors |-> << >>]

\* stage names: the literals are Chinese for "initialisation", "scene
\* analysis", "strategy planning" and "precision segmentation"
STAGE_INIT == "Init"

STAGE_SCENE == "SceneAnalysis"

STAGE_STRATEGY == "StrategyPlanning"

STAGE_SEGMENT == "PrecisionSegmentation"

StageOrder == <<STAGE_SCENE, STAGE_STRATEGY, STAGE_SEGMENT>>

(***************************************************************************)
(* ImageProcessor (src/src/utils/image_utils.py)                           *)
(***************************************************************************)
Max(a, b) == IF a >= b THEN a ELSE b

Min(a, b) == IF a <= b THEN a ELSE b

\* 2^n
RECURSIVE Pow2(_)
Pow2(n) == IF n = 0 THEN 1 ELSE 2 * Pow2(n - 1)

Square(x) == x * x

\* 2^n modulo h, by repeated squaring
RECURSIVE Pow2Mod(_, _)
Pow2Mod(n, h) ==
    IF n = 0 THEN 1 % h
    ELSE (Square(Pow2Mod(n \div 2, h)) * (IF n % 2 = 1 THEN 2 ELSE 1)) % h

\* the exponent e with 2^e <= n < 2^(e+1)
RECURSIVE Log2(_)
Log2(n) == IF n <= 1 THEN 0 ELSE 1 + Log2(n \div 2)

\* the least k with max_size * 2^k >= side: the double max_size / side
\* has the 53-bit significand M and the value M / 2^(52 + k)
RECURSIVE scale_exponent(_, _)
scale_exponent(max_size, side) ==
    IF max_size >= side THEN 0 ELSE 1 + scale_exponent(2 * max_size, side)

\* side * M - max_size * 2^(52 + k) for the significand M of the double
\* scale = max_size / side (round to nearest): negative when the quotient
\* was rounded down, positive when it was rounded up, 0 when it is exact
scale_error(max_size, side) ==
    LET S == 52 + scale_exponent(max_size, side)
        r == ((max_size % side) * Pow2Mod(S, side)) % side
    IN  IF 2 * r < side THEN 0 - r ELSE side - r

\* int(x * scale) for the double scale = max_size / side (side > max_size),
\* with the double product rounded to nearest, ties to even
int_of_scaled(x, max_size, side) ==
    LET I == (x * max_size) \div side
        f == (x * max_size) % side
        d == scale_error(max_size, side)
        e == Log2(I)
        t == scale_exponent(max_size, side) + e - (IF I = Pow2(e) THEN 2 ELSE 1)
        \* x * |d| / (side * 2^S) against half the gap below I
        lhs == x * (0 - d) * (IF t < 0 THEN Pow2(0 - t) ELSE 1)
        rhs == side * (IF t < 0 THEN 1 ELSE Pow2(t))
    IN  IF f # 0 \/ d >= 0 \/ I = 0
        THEN I
        ELSE IF lhs <= rhs THEN I ELSE I - 1

\* _resize_image on a <<width, height>> shape
ImageProcessor_resize_image(size, max_size) ==
    LET width == size[1]
        height == size[2]
    IN  IF Max(height, width) <= max_size
        THEN size
        ELSE IF height > width
             THEN <<int_of_scaled(width, max_size, height),
                    int_of_scaled(height, max_size, height)>>
             ELSE <<int_of_scaled(width, max_size, width),
                    int_of_scaled(height, max_size, width)>>

path_exists(r) == r.path # "missing"

path_is_file(r) == r.path \in {"ok", "bad_format"}

path_supported(r) == r.path \in {"ok", "not_file"}

\* load_image: Optional shape of the loaded, resized image
load_image(r, max_size) ==
    IF path_exists(r) /\ path_supported(r) /\ path_is_file(r) /\ r.readable
    THEN Some(ImageProcessor_resize_image(r.size, max_size))
    ELSE None

(***************************************************************************)
(* Replies of the recognition capability (ModelClient.analyze_image)       *)
(***************************************************************************)
SeqsUpTo(S, n) == UNION {[1..k -> S] : k \in 0..n}

\* first element of s satisfying P, as an Optional
FirstWhere(s, P(_)) ==
    LET idx == {i \in 1..Len(s) : P(s[i])}
    IN  IF idx = {} THEN None ELSE Some(s[CHOOSE i \in idx : \A j \in idx : i <= j])

Labels == {"mug", "knife", "box"}

ObjectIds == {"obj_1", "obj_2"}

\* confidences in tenths
Confidences == {5, 9}

BBoxes == {<<0, 0, 1, 1>>}

\* one entry of the "objects" list of a detection answer
ObjData ==
    [object_id : ObjectIds, label : Labels, confidence : Confidences, bounding_box : BBoxes]

NoDoc == [kind |-> "none"]

ListDoc == [kind |-> "list"]

\* texts that are no JSON document: prose, the empty text, a document with
\* prose after it
MalformedChars == {<<"n", "o", "t">>, << >>, <<DOC, " ", "x">>}

FencedJsonChars == FENCE_JSON \o <<NL, DOC, NL>> \o FENCE

FencedChars == FENCE \o <<DOC>> \o FENCE

Reply(raised, chars, doc) == [raised |-> raised, chars |-> chars, doc |-> doc]

RaisedReply == Reply(TRUE, << >>, NoDoc)

\* the replies around a set of documents: the call raises (timeout, HTTP
\* error), the text is malformed, the document arrives bare, as a JSON
\* list instead of an object, or wrapped in a markdown fence
RepliesOver(docs) ==
    {RaisedReply}
    \cup {Reply(FALSE, c, NoDoc) : c \in MalformedChars}
    \cup {Reply(FALSE, <<DOC>>, ListDoc)}
    \cup {Reply(FALSE, c, d) : c \in {<<DOC>>, <<" ", DOC, NL>>, FencedJsonChars}, d \in docs}

DetectionDocs == {[kind |-> "dict", objects |-> os] : os \in SeqsUpTo(ObjData, MaxObjects)}

DetectionReplies == RepliesOver(DetectionDocs)

IntentTypes == {"drink", "cut", "other"}

IntentDocs ==
    {[kind |-> "dict", intent_type |-> t, target_object_id |-> i] :
        t \in IntentTypes, i \in {None, Some("obj_1"), Some("obj_9")}}

IntentReplies == RepliesOver(IntentDocs)

MakeGrid(width, height, v) == [r \in 1..height |-> [c \in 1..width |-> v]]

\* segmentation answers for an image of the given working shape: the grid
\* covers the image the capability was shown, is empty, or is a single pixel
SegmentationDocs(shape) ==
    {[kind |-> "dict", target_found |-> f, segmentation_mask |-> g, mask_info |-> i] :
        f \in BOOLEAN,
        g \in {MakeGrid(shape[1], shape[2], 1), MakeGrid(shape[1], shape[2], 0),
               MakeGrid(1, 1, 1), << >>},
        i \in {None, Some([width |-> shape[1], height |-> shape[2]]),
               Some([width |-> shape[1] + 1, height |-> shape[2]])}}

SegmentationReplies(shape) == RepliesOver(SegmentationDocs(shape))

(***************************************************************************)
(* VisionAnalysisTool (src/src/tools/vision_tool.py)                       *)
(***************************************************************************)
\* _classify_object on the labels of the model: "mug" holds the keyword of
\* CUP, "knife" that of KNIFE, "box" none
classify_object(label) ==
    CASE label = "mug" -> "cup"
      [] label = "knife" -> "knife"
      [] OTHER -> "unknown object"

ToolResult(success, error, objects, mask) ==
    [success |-> success, error |-> error, objects |-> objects, mask |-> mask]

ToolError(error) == ToolResult(FALSE, error, << >>, None)

parse_detected(obj_data) ==
    DetectedObject(obj_data.object_id, obj_data.label, classify_object(obj_data.label),
                   Some(obj_data.bounding_box), obj_data.confidence)

\* _parse_detection_response
parse_detection_response(reply) ==
    LET result_data == json_loads(reply.chars, reply.doc)
    IN  IF result_data = None
        THEN ToolError("response format error")
        ELSE IF result_data[1].kind # "dict"
             THEN ToolError("parse failed")
             ELSE ToolResult(TRUE, "",
                      [i \in 1..Len(result_data[1].objects) |->
                          parse_detected(result_data[1].objects[i])],
                      None)

\* _detect_objects: the log line after parsing reads detection_result['objects'],
\* a KeyError on the parser's error dict, which the except block wraps
detect_objects(reply) ==
    IF reply.raised THEN ToolError("object detection failed")
    ELSE LET detection_result == parse_detection_response(reply)
         IN  IF detection_result.success THEN detection_result
             ELSE ToolError("object detection failed")

\* _parse_segmentation_response
parse_segmentation_response(reply, target_object, target_part) ==
    LET result_data == json_loads(reply.chars, reply.doc)
    IN  IF result_data = None
        THEN ToolError("segmentation response format error")
        ELSE IF result_data[1].kind # "dict"
             THEN ToolError("segmentation parse failed")
        ELSE IF ~result_data[1].target_found
             THEN ToolError("target not found")
        ELSE IF result_data[1].segmentation_mask = << >>
             THEN ToolError("no valid segmentation mask")
        ELSE LET mask_data == result_data[1].segmentation_mask
                 mask_info == result_data[1].mask_info
             IN  ToolResult(TRUE, "", << >>,
                     Some(SegmentationMask(
                         mask_data,
                         IF mask_info = None THEN Len(mask_data[1]) ELSE mask_info[1].width,
                         IF mask_info = None THEN Len(mask_data) ELSE mask_info[1].height,
                         "seg_" \o target_object, target_part)))

\* _segment_part
segment_part(reply, target_object, target_part) ==
    IF target_object = "" \/ target_part = ""
    THEN ToolError("missing segmentation target")
    ELSE IF reply.raised THEN ToolError("part segmentation failed")
    ELSE parse_segmentation_response(reply, target_object, target_part)

\* whether _run gets as far as calling the recognition capability
tool_reaches_gateway(r, max_size) == path_exists(r) /\ load_image(r, max_size) # None

\* _run
VisionAnalysisTool_run(operation, r, max_size, reply, target_object, target_part) ==
    IF ~path_exists(r) THEN ToolError("image file does not exist")
    ELSE IF load_image(r, max_size) = None THEN ToolError("cannot load image")
    ELSE IF operation = "detect_objects" THEN detect_objects(reply)
    ELSE IF operation = "segment_part" THEN segment_part(reply, target_object, target_part)
    ELSE ToolError("unsupported operation")

(***************************************************************************)
(* SceneAnalyst (src/src/agents/scene_analyst.py)                          *)
(***************************************************************************)
\* the conversion loop of analyze_scene: an entry whose DetectedObject does
\* not validate is skipped
RECURSIVE convert_objects(_)
convert_objects(objs) ==
    IF objs = << >> THEN << >>
    ELSE (IF DetectedObject_validates(Head(objs).bounding_box, Head(objs).category)
          THEN <<Head(objs)>> ELSE << >>) \o convert_objects(Tail(objs))

\* what analyze_scene hands back: raised says whether an exception leaves
\* it, objects is the scene, failure the cause its except block logged
SceneOutcome(raised, objects, failure) ==
    [raised |-> raised, objects |-> objects, failure |-> failure]

\* the except block of analyze_scene: an empty scene instead of the error
analyze_scene_except(cause) == SceneOutcome(FALSE, << >>, Some(cause))

analyze_scene(r, max_size, reply) ==
    IF load_image(r, max_size) = None
    THEN analyze_scene_except("cannot load image")
    ELSE LET detection_result ==
                 VisionAnalysisTool_run("detect_objects", r, max_size, reply, "", "")
         IN  IF ~detection_result.success
             THEN analyze_scene_except(detection_result.error)
             ELSE SceneOutcome(FALSE, convert_objects(detection_result.objects), None)

(***************************************************************************)
(* InteractionStrategist (src/src/agents/interaction_strategist.py)        *)
(***************************************************************************)
\* literals: cup handle / cup body, grip / blade, knife handle / blade,
\* bottle neck / bottle body
functional_parts_knowledge(category) ==
    CASE category = "cup" ->
            <<FunctionalPart("cup handle", 95, 90, 1), FunctionalPart("cup body", 30, 50, 3)>>
      [] category = "scissors" ->
            <<FunctionalPart("grip", 90, 95, 1), FunctionalPart("blade", 10, 10, 5)>>
      [] category = "knife" ->
            <<FunctionalPart("knife handle", 85, 90, 1), FunctionalPart("blade", 5, 10, 5)>>
      [] category = "bottle" ->
            <<FunctionalPart("bottle neck", 90, 85, 1), FunctionalPart("bottle body", 70, 60, 2)>>
      [] OTHER -> << >>

UserIntent(intent_type, target_object_id) ==
    [intent_type |-> intent_type, target_object_id |-> target_object_id]

\* what intent analysis hands back: the intent, and whether it is a default
\* put in place of a failure
IntentOutcome(intent, defaulted) == [intent |-> intent, defaulted |-> defaulted]

\* the bare except of _parse_intent_response
parse_intent_response_except == IntentOutcome(UserIntent("parse failed", None), TRUE)

parse_intent_response(reply) ==
    LET data == json_loads(reply.chars, reply.doc)
    IN  IF data = None \/ data[1].kind # "dict"
        THEN parse_intent_response_except
        ELSE IntentOutcome(UserIntent(data[1].intent_type, data[1].target_object_id), FALSE)

\* the except block of analyze_user_intent
analyze_user_intent_except == IntentOutcome(UserIntent("unknown intent", None), TRUE)

\* UserIntent is a pydantic model, not a mapping
subscriptable(intent_data) == FALSE

\* analyze_user_intent: after parsing, the log line reads
\* intent_data['intent_type']; the TypeError lands in the except block
analyze_user_intent(reply) ==
    IF reply.raised THEN analyze_user_intent_except
    ELSE LET intent_data == parse_intent_response(reply)
         IN  IF subscriptable(intent_data) THEN intent_data ELSE analyze_user_intent_except

\* literals: drinking, dining, cutting, writing, reading, communication
intent_to_category(intent_type) ==
    CASE intent_type = "drink" -> <<"cup", "bottle">>
      [] intent_type = "dine" -> <<"fork", "spoon", "knife">>
      [] intent_type = "cut" -> <<"scissors">>
      [] intent_type = "write" -> <<"pen">>
      [] intent_type = "read" -> <<"book">>
      [] intent_type = "call" -> <<"phone">>
      [] OTHER -> << >>

\* the nested loop over target categories and objects
RECURSIVE match_category(_, _)
match_category(target_categories, objects) ==
    IF target_categories = << >> THEN None
    ELSE LET hit == FirstWhere(objects, LAMBDA o : o.category = Head(target_categories))
         IN  IF hit # None THEN hit ELSE match_category(Tail(target_categories), objects)

\* max(objects, key=confidence): the first object of maximal confidence
max_confidence(objects) ==
    FirstWhere(objects, LAMBDA o : \A i \in 1..Len(objects) : objects[i].confidence <= o.confidence)

\* a selection that gives up when neither the id nor a category matches
select_target_object_without_fallback(user_intent, objects) ==
    LET by_id ==
            IF user_intent.target_object_id = None THEN None
            ELSE FirstWhere(objects, LAMBDA o : o.object_id = user_intent.target_object_id[1])
        by_category == match_category(intent_to_category(user_intent.intent_type), objects)
    IN  IF by_id # None THEN by_id ELSE by_category

select_target_object(user_intent, objects) ==
    LET by_id ==
            IF user_intent.target_object_id = None THEN None
            ELSE FirstWhere(objects, LAMBDA o : o.object_id = user_intent.target_object_id[1])
        by_category == match_category(intent_to_category(user_intent.intent_type), objects)
    IN  IF by_id # None THEN by_id
        ELSE IF by_category # None THEN by_category
        ELSE IF objects # << >> THEN max_confidence(objects)
        ELSE None

RECURSIVE select_safe(_)
select_safe(parts) ==
    IF parts = << >> THEN << >>
    ELSE (IF Head(parts).safety_score > 50 THEN <<Head(parts)>> ELSE << >>)
         \o select_safe(Tail(parts))

\* min(parts, key=grasp_priority): the first part of minimal priority number
min_priority(parts) ==
    FirstWhere(parts, LAMBDA p : \A i \in 1..Len(parts) :
                   p.grasp_priority <= parts[i].grasp_priority)[1]

\* max(parts, key=safety_score): the first part of maximal safety score
max_safety(parts) ==
    FirstWhere(parts, LAMBDA p : \A i \in 1..Len(parts) :
                   parts[i].safety_score <= p.safety_score)[1]

\* a selection by priority alone
select_part_by_priority(available_parts) ==
    IF available_parts = << >>
    THEN FunctionalPart("main body", 70, 70, 1)
    ELSE min_priority(available_parts)

\* _select_functional_part on the table's entry for the object's category
select_part(available_parts) ==
    LET safe_parts == select_safe(available_parts)
    IN  IF available_parts = << >>
        THEN FunctionalPart("main body", 70, 70, 1)
        ELSE IF safe_parts # << >>
             THEN min_priority(safe_parts)
             ELSE max_safety(available_parts)

\* dict.get(category, []) on a table
knowledge_get(knowledge, category) ==
    IF category \in DOMAIN knowledge THEN knowledge[category] ELSE << >>

select_functional_part(target_object) ==
    select_part(functional_parts_knowledge(target_object.category))

\* Optional strategy, for a strategist whose table is knowledge
create_interaction_strategy_with(knowledge, user_intent, objects) ==
    LET target_object == select_target_object(user_intent, objects)
    IN  IF target_object = None THEN None
        ELSE Some(InteractionStrategy(
                 target_object[1],
                 select_part(knowledge_get(knowledge, target_object[1].category))))

\* Optional strategy
create_interaction_strategy(user_intent, objects) ==
    LET target_object == select_target_object(user_intent, objects)
    IN  IF target_object = None THEN None
        ELSE Some(InteractionStrategy(target_object[1], select_functional_part(target_object[1])))

(***************************************************************************)
(* PrecisionSegmenter (src/src/agents/precision_segmenter.py)              *)
(***************************************************************************)
EmptyMask(target_object_id, target_part_name) ==
    SegmentationMask(<< >>, 0, 0, target_object_id, target_part_name)

Segmenter_validate_inputs(r, strat) == path_exists(r) /\ strat.target_part.part_name # ""

\* _parse_segmentation_mask
parse_segmentation_mask(mask, strat) ==
    SegmentationMask(mask.mask_array, mask.width, mask.height,
                     strat.target_object.object_id, strat.target_part.part_name)

\* the except block of segment_target_part: error_message is str(e)
segment_target_part_except(strat, cause) ==
    SegmentationResult(
        EmptyMask(strat.target_object.object_id, strat.target_part.part_name),
        Some(strat), FALSE, Some(<<cause>>))

segment_target_part(r, max_size, strat, reply) ==
    IF ~Segmenter_validate_inputs(r, strat)
    THEN segment_target_part_except(strat, "input validation failed")
    ELSE LET segmentation_data ==
                 VisionAnalysisTool_run("segment_part", r, max_size, reply,
                                        strat.target_object.label, strat.target_part.part_name)
         IN  IF ~segmentation_data.success
             THEN segment_target_part_except(strat, segmentation_data.error)
             ELSE SegmentationResult(parse_segmentation_mask(segmentation_data.mask[1], strat),
                                     Some(strat), TRUE, None)

(***************************************************************************)
(* GraspMindPipeline (src/src/core/pipeline.py)                            *)
(***************************************************************************)
Instructions == {<< >>, <<" ">>, <<"g">>}

ImageSizes ==
    {<<MaxImageSize, MaxImageSize>>, <<2 * MaxImageSize, MaxImageSize>>,
     <<MaxImageSize, MaxImageSize + 1>>}

\* a process call: the state of the file behind image_path (path: "ok",
\* "missing", "not_file" for a directory, "bad_format" for an unsupported
\* suffix; readable: cv2.imread decodes it; size: its <<width, height>>)
\* and the instruction
Requests ==
    {[path |-> "ok", readable |-> rd, instruction |-> ins, size |-> sz] :
        rd \in BOOLEAN, ins \in Instructions, sz \in ImageSizes}
    \cup {[path |-> p, readable |-> FALSE, instruction |-> ins,
           size |-> <<MaxImageSize, MaxImageSize>>] :
             p \in {"missing", "not_file", "bad_format"}, ins \in Instructions}

NoRequest ==
    [path |-> "missing", readable |-> FALSE, instruction |-> << >>,
     size |-> <<MaxImageSize, MaxImageSize>>]

\* a validation that tests the instruction for emptiness only
Pipeline_validate_inputs_unstripped(r) ==
    /\ path_exists(r)
    /\ path_is_file(r)
    /\ path_supported(r)
    /\ r.instruction # << >>

\* _validate_inputs
Pipeline_validate_inputs(r) ==
    /\ path_exists(r)
    /\ path_is_file(r)
    /\ path_supported(r)
    /\ r.instruction # << >>
    /\ strip(r.instruction) # << >>

\* Messages are sequences of words: str(e) of Exception(cause) is <<cause>>,
\* and the entry a stage method appends to pipeline.errors is the f-string
\* "<stage> failed: <str(e)>"
StageError(stage, e) == <<stage, "failed">> \o e

Mentions(message, word) == \E i \in 1..Len(message) : message[i] = word

Event(ev, stage, info) == [ev |-> ev, stage |-> stage, info |-> info]

\* what the recognition capability did in a call, for the history: the call
\* raised, the text is no JSON document, or it is one
ReplyClass(reply) ==
    IF reply.raised THEN "raised"
    ELSE IF json_loads(reply.chars, reply.doc) = None THEN "malformed"
    ELSE "json"

\* a detection answer that is a JSON object listing zero objects
IsEmptyDetection(reply) ==
    /\ ReplyClass(reply) = "json"
    /\ reply.doc.kind = "dict"
    /\ reply.doc.objects = << >>

\* a segmentation answer whose grid covers the image the capability was
\* shown (the working image) and whose declared size, if any, agrees
IsFaithfulSegmentation(reply, shape) ==
    /\ ReplyClass(reply) = "json"
    /\ reply.doc.kind = "dict"
    /\ reply.doc.target_found
    /\ Len(reply.doc.segmentation_mask) = shape[2]
    /\ \A i \in 1..Len(reply.doc.segmentation_mask) :
          Len(reply.doc.segmentation_mask[i]) = shape[1]
    /\ reply.doc.mask_info \in {None, Some([width |-> shape[1], height |-> shape[2]])}

Outcome(kind, result, exception) == [kind |-> kind, result |-> result, exception |-> exception]

Pending == Outcome("pending", None, "")

\* the except block of process: it builds a placeholder strategy around
\* DetectedObject(object_id="error", label="error", bounding_box=None,
\* category="unknown") and returns a failure result; when the placeholder
\* does not validate, pydantic's ValidationError leaves process instead
process_except(e) ==
    IF ~DetectedObject_validates(None, "unknown")
    THEN Outcome("raised", None, "ValidationError")
    ELSE Outcome("returned",
             Some(SegmentationResult(
                 EmptyMask("error", "error"),
                 Some(InteractionStrategy(
                     DetectedObject("error", "error", "unknown", None, 10),
                     FunctionalPart("error", 100, 100, 1))),
                 FALSE, Some(e))),
             "")

\* a scene stage that treats an empty scene as its own failure
scene_stage_raises_on_empty(outcome) == outcome.raised \/ outcome.objects = << >>

\* the except branches of the three stage methods are taken when the agent
\* call raises, when no strategy came back, when the result says failure
scene_stage_raises(outcome) == outcome.raised

\* a strategy stage without the "if not strategy: raise" check
strategy_stage_never_raises(strat) == FALSE

strategy_stage_raises(strat) == strat = None

segmentation_stage_raises(result) == ~result.success

\* a stage method that appends its name to completed_stages before it fails
StageFailedAfterAppend(stage, e) ==
    /\ pipeline' = [pipeline EXCEPT !.stage = stage,
                                    !.completed_stages = Append(@, stage),
                                    !.errors = Append(@, StageError(stage, e))]
    /\ exc' = Some(e)
    /\ pc' = "except"

StageFailed(stage, e) ==
    /\ pipeline' = [pipeline EXCEPT !.stage = stage,
                                    !.errors = Append(@, StageError(stage, e))]
    /\ exc' = Some(e)
    /\ pc' = "except"

StageCompleted(stage, next) ==
    /\ pipeline' = [pipeline EXCEPT !.stage = stage,
                                    !.completed_stages = Append(@, stage)]
    /\ exc' = exc
    /\ pc' = next

agentVars == <<agent, agentOut>>

StartProcess ==
    /\ pc = "idle"
    /\ \E r \in Requests : req' = r
    /\ pipeline' = ProcessingPipeline(STAGE_INIT, << >>)
    /\ scene_result' = None
    /\ strategy' = None
    /\ exc' = None
    /\ ret' = Pending
    /\ hist' = << >>
    /\ pc' = "validate"
    /\ UNCHANGED <<agentVars, parsed, mapperVars>>

ValidateInputs ==
    /\ pc = "validate"
    /\ IF Pipeline_validate_inputs(req)
       THEN pc' = "scene" /\ exc' = exc
       ELSE pc' = "except" /\ exc' = Some(<<"input validation failed">>)
    /\ UNCHANGED <<req, pipeline, scene_result, strategy, ret, hist, agentVars, parsed, mapperVars>>

StageSceneAnalysis ==
    /\ pc = "scene"
    /\ \E reply \in DetectionReplies :
         LET out == analyze_scene(req, MaxImageSize, reply)
         IN  /\ hist' = hist
                    \o <<Event("enter", STAGE_SCENE, "")>>
                    \o (IF tool_reaches_gateway(req, MaxImageSize)
                        THEN <<Event("invoke", STAGE_SCENE,
                                     IF IsEmptyDetection(reply) THEN "no objects"
                                     ELSE ReplyClass(reply))>>
                        ELSE << >>)
                    \o (IF out.failure # None
                        THEN <<Event("swallowed", STAGE_SCENE, out.failure[1])>> ELSE << >>)
             /\ IF scene_stage_raises(out)
                THEN /\ StageFailed(STAGE_SCENE, <<"scene analysis raised">>)
                     /\ scene_result' = scene_result
                ELSE /\ StageCompleted(STAGE_SCENE, "strategy")
                     /\ scene_result' = Some(out.objects)
    /\ UNCHANGED <<req, strategy, ret, agentVars, parsed, mapperVars>>

StageStrategyPlanning ==
    /\ pc = "strategy"
    /\ \E reply \in IntentReplies :
         LET user_intent == analyze_user_intent(reply)
             strat == create_interaction_strategy(user_intent.intent, scene_result[1])
         IN  /\ hist' = hist
                    \o <<Event("enter", STAGE_STRATEGY, ""),
                         Event("invoke", STAGE_STRATEGY, ReplyClass(reply))>>
                    \o (IF user_intent.defaulted
                        THEN <<Event("swallowed", STAGE_STRATEGY, user_intent.intent.intent_type)>>
                        ELSE << >>)
             /\ IF strategy_stage_raises(strat)
                THEN /\ StageFailed(STAGE_STRATEGY, <<"no valid interaction strategy">>)
                     /\ strategy' = strategy
                ELSE /\ StageCompleted(STAGE_STRATEGY, "segment")
                     /\ strategy' = strat
    /\ UNCHANGED <<req, scene_result, ret, agentVars, parsed, mapperVars>>

WorkingShape(r) ==
    IF load_image(r, MaxImageSize) = None THEN r.size ELSE load_image(r, MaxImageSize)[1]

StagePrecisionSegmentation ==
    /\ pc = "segment"
    /\ \E reply \in SegmentationReplies(WorkingShape(req)) :
         LET segmentation_result == segment_target_part(req, MaxImageSize, strategy[1], reply)
         IN  /\ hist' = hist
                    \o <<Event("enter", STAGE_SEGMENT, "")>>
                    \o (IF Segmenter_validate_inputs(req, strategy[1])
                           /\ tool_reaches_gateway(req, MaxImageSize)
                        THEN <<Event("invoke", STAGE_SEGMENT,
                                     IF IsFaithfulSegmentation(reply, WorkingShape(req))
                                     THEN "faithful" ELSE ReplyClass(reply))>>
                        ELSE << >>)
             /\ IF segmentation_stage_raises(segmentation_result)
                THEN /\ StageFailed(STAGE_SEGMENT,
                                     IF segmentation_result.error_message \in {None, Some(<< >>)}
                                     THEN <<"segmentation failed">>
                                     ELSE segmentation_result.error_message[1])
                     /\ ret' = ret
                ELSE /\ pipeline' = [pipeline EXCEPT
                                        !.stage = STAGE_SEGMENT,
                                        !.completed_stages = Append(@, STAGE_SEGMENT)]
                     /\ exc' = exc
                     /\ ret' = Outcome("returned", Some(segmentation_result), "")
                     /\ pc' = "done"
    /\ UNCHANGED <<req, scene_result, strategy, agentVars, parsed, mapperVars>>

ProcessExcept ==
    /\ pc = "except"
    /\ ret' = process_except(exc[1])
    /\ pc' = "done"
    /\ UNCHANGED <<req, pipeline, scene_result, strategy, exc, hist, agentVars, parsed, mapperVars>>

\* process has returned or raised: its locals, the ProcessingPipeline among
\* them, are gone
ReturnToCaller ==
    /\ pc = "done"
    /\ pc' = "idle"
    /\ req' = NoRequest
    /\ pipeline' = ProcessingPipeline(STAGE_INIT, << >>)
    /\ scene_result' = None
    /\ strategy' = None
    /\ exc' = None
    /\ ret' = Pending
    /\ hist' = << >>
    /\ UNCHANGED <<agentVars, parsed, mapperVars>>

(***************************************************************************)
(* ImagePreprocessor (src/Utiles/ImagePreprocessor.py)                     *)
(***************************************************************************)
MAX_SIZE == 1024

JPEG_QUALITY == 85

RECURSIVE GCD(_, _)
GCD(a, b) == IF b = 0 THEN a ELSE GCD(b, a % b)

\* a float, as the rational n/d (d > 0) in lowest terms
Rat(n, d) ==
    LET g == GCD(IF n < 0 THEN -n ELSE n, d)
    IN  [num |-> n \div g, den |-> d \div g]

\* ImagePreprocessor.__init__
NewPreprocessor == [original_size |-> None, processed_size |-> None, scale_factor |-> None]

\* int(n / d) for d > 0: the quotient cut towards zero
int_div(n, d) == IF n >= 0 THEN n \div d ELSE 0 - ((0 - n) \div d)

\* resize_image: the fields it leaves on the preprocessor
Preprocessor_resize_image(size, max_size) ==
    LET width == size[1]
        height == size[2]
    IN  IF width <= max_size /\ height <= max_size
        THEN [original_size |-> Some(size), processed_size |-> Some(size),
              scale_factor |-> Some(Rat(1, 1))]
        ELSE IF width > height
             THEN [original_size |-> Some(size),
                   processed_size |-> Some(<<max_size, int_div(height * max_size, width)>>),
                   scale_factor |-> Some(Rat(max_size, width))]
             ELSE [original_size |-> Some(size),
                   processed_size |-> Some(<<int_div(width * max_size, height), max_size>>),
                   scale_factor |-> Some(Rat(max_size, height))]

get_scale_info(pre) ==
    [original_size |-> pre.original_size, processed_size |-> pre.processed_size,
     scale_factor |-> pre.scale_factor]

\* outcome of a call on the preprocessor: raised or not, the preprocessor
\* afterwards and the value returned
PreOutcome(raised, pre, value) == [raised |-> raised, pre |-> pre, value |-> value]

\* image.resize((new_width, new_height), ...) raises ValueError when a side
\* is not positive
resize_raises(processed_size) == processed_size[1] <= 0 \/ processed_size[2] <= 0

\* preprocess_image(image_path, max_size, quality) on the file behind the
\* path: neither argument is examined; resize_image writes the fields
\* before image.resize sees the size, and image.save takes any quality
preprocess_image_with(pre, file, max_size, quality) ==
    IF ~file.exists \/ ~file.readable
    THEN PreOutcome(TRUE, pre, None)
    ELSE LET after == Preprocessor_resize_image(file.size, max_size)
         IN  IF resize_raises(after.processed_size[1])
             THEN PreOutcome(TRUE, after, None)
             ELSE PreOutcome(FALSE, after, Some(get_scale_info(after)))

\* preprocess_image(image_path) on the file behind the path
preprocess_image(pre, file) == preprocess_image_with(pre, file, MAX_SIZE, JPEG_QUALITY)

\* x * scale_factor: the scaling applied in the wrong direction
multiply(x, scale_factor) == Rat(x * scale_factor.num, scale_factor.den)

\* x / scale_factor
divide(x, scale_factor) == Rat(x * scale_factor.den, scale_factor.num)

\* min(q, limit): the clamp without its lower end
clamp_above(q, limit) == IF q.num <= limit * q.den THEN q ELSE Rat(limit, 1)

\* max(0, min(q, limit))
clamp(q, limit) ==
    LET lower == IF q.num <= limit * q.den THEN q ELSE Rat(limit, 1)
    IN  IF lower.num >= 0 THEN lower ELSE Rat(0, 1)

\* ImagePreprocessor.convert_coordinates_to_original(bbox): Optional box,
\* None stands for the ValueError
Preprocessor_convert_coordinates_to_original(pre, bbox) ==
    IF pre.scale_factor = None \/ pre.original_size = None
    THEN None
    ELSE IF Len(bbox) # 4
         THEN None
         ELSE LET sf == pre.scale_factor[1]
                  original_width == pre.original_size[1][1]
                  original_height == pre.original_size[1][2]
              IN  Some(<<clamp(divide(bbox[1], sf), original_width),
                         clamp(divide(bbox[2], sf), original_height),
                         clamp(divide(bbox[3], sf), original_width),
                         clamp(divide(bbox[4], sf), original_height)>>)

\* boxes in working space: one inside every working image, one with
\* negative and beyond-the-image coordinates, one that is not a box of four
MapperBoxes == {<<100, 100, 200, 200>>, <<-64, -32, 4096, 4096>>, <<1, 2, 3>>}

\* convert_coordinates_list_to_original(bboxes): Optional list, None stands
\* for the ValueError of one of its elements
Preprocessor_convert_coordinates_list_to_original(pre, bboxes) ==
    LET each == [i \in 1..Len(bboxes) |->
                    Preprocessor_convert_coordinates_to_original(pre, bboxes[i])]
    IN  IF \E i \in 1..Len(bboxes) : each[i] = None
        THEN None
        ELSE Some([i \in 1..Len(bboxes) |-> each[i][1]])

(***************************************************************************)
(* PreciseSegmentationAgent (src/Agents/PreciseSegmentationAgent.py)       *)
(***************************************************************************)
\* the files and URLs a request can name: a landscape and a portrait image
\* above MAX_SIZE, one inside it, one remote image, a path with no file
\* behind it and a file PIL cannot open
File(path, url, exists, readable, size) ==
    [path |-> path, url |-> url, exists |-> exists, readable |-> readable, size |-> size]

AgentFiles ==
    {File("big.jpg", FALSE, TRUE, TRUE, <<1600, 1200>>),
     File("tall.jpg", FALSE, TRUE, TRUE, <<1024, 2048>>),
     File("small.jpg", FALSE, TRUE, TRUE, <<800, 600>>),
     File("http://host/remote.jpg", TRUE, TRUE, TRUE, <<2000, 1000>>),
     File("missing.jpg", FALSE, FALSE, FALSE, <<0, 0>>),
     File("corrupt.jpg", FALSE, TRUE, FALSE, <<0, 0>>)}

AgentPaths == {f.path : f \in AgentFiles} \cup {""}

FileAt(path) == CHOOSE f \in AgentFiles : f.path = path

\* boxes of an answer, in the pixels of the image the capability was shown:
\* two well-formed ones, one with its corners swapped and one that is not a
\* box of four numbers
AgentBoxes ==
    {<<100, 100, 200, 200>>, <<0, 0, 1024, 768>>, <<200, 100, 100, 200>>, <<1, 2, 3>>}

\* one element of the answer list: a dict with or without "bbox_2d"
AgentItems ==
    {[bbox_2d |-> Some(b), label |-> "handle"] : b \in AgentBoxes}
    \cup {[bbox_2d |-> None, label |-> "handle"]}

\* the elements of a list handed to convert_coordinates_to_original: boxes
\* under two labels, an element that is not a box of four numbers and one
\* without "bbox_2d"
ConvertItems ==
    {[bbox_2d |-> Some(<<100, 100, 200, 200>>), label |-> "handle"],
     [bbox_2d |-> Some(<<100, 100, 200, 200>>), label |-> "body"],
     [bbox_2d |-> Some(<<1, 2, 3>>), label |-> "handle"],
     [bbox_2d |-> None, label |-> "handle"]}

AgentDocs ==
    {[kind |-> "list", items |-> is] : is \in SeqsUpTo(AgentItems, MaxBoxes)}
    \cup {[kind |-> "dict", items |-> << >>]}

AgentReplies ==
    {RaisedReply}
    \cup {Reply(FALSE, c, NoDoc) : c \in MalformedChars}
    \cup {Reply(FALSE, c, d) : c \in {<<DOC>>, FencedJsonChars, FencedChars}, d \in AgentDocs}

\* a text: characters and the document behind the DOC element
Text(chars, doc) == [chars |-> chars, doc |-> doc]

\* json.dumps(value)
json_dumps(doc) == Text(<<DOC>>, doc)

\* __init__; scale_owner is a history field: the path whose preprocessing
\* produced scale_info
NewAgent ==
    [image |-> None, scale_info |-> None, image_preprocessor |-> NewPreprocessor,
     scale_owner |-> None]

\* outcome of a call on the agent; items is the list handed to
\* convert_coordinates_to_original and items_after what that list holds
\* when the call is over
AgentOutcome(op, kind, image, text, boxes, record_of, agent_after) ==
    [op |-> op, kind |-> kind, image |-> image, text |-> text, boxes |-> boxes,
     record_of |-> record_of, agent |-> agent_after, items |-> << >>, items_after |-> << >>]

NoText == Text(<< >>, NoDoc)

\* _encode_image_to_base64: Optional agent, None stands for the exception
encode_image_to_base64(ag, path) ==
    LET out == preprocess_image(ag.image_preprocessor, FileAt(path))
    IN  IF out.raised
        THEN None
        ELSE Some([ag EXCEPT !.image_preprocessor = out.pre,
                             !.scale_info = out.value,
                             !.scale_owner = Some(path)])

\* the boxes among the elements of an answer list
RECURSIVE boxes_of(_)
boxes_of(items) ==
    IF items = << >> THEN << >>
    ELSE (IF Head(items).bbox_2d = None THEN << >> ELSE <<Head(items).bbox_2d[1]>>)
         \o boxes_of(Tail(items))

\* a conversion that keeps only the elements that have a "bbox_2d"
Agent_convert_only_boxes(ag, segmentation_results) ==
    LET boxes == boxes_of(segmentation_results)
        converted == Preprocessor_convert_coordinates_list_to_original(
                         ag.image_preprocessor, boxes)
    IN  IF ag.scale_info = None
        THEN Some(segmentation_results)
        ELSE IF converted = None
             THEN None
             ELSE Some([i \in 1..Len(boxes) |->
                          [bbox_2d |-> Some(converted[1][i]), label |-> "handle"]])

\* convert_coordinates_to_original(segmentation_results): Optional list,
\* None stands for the mapper's ValueError
Agent_convert_coordinates_to_original(ag, segmentation_results) ==
    IF ag.scale_info = None
    THEN Some(segmentation_results)
    ELSE LET original_bbox(result) ==
                 Preprocessor_convert_coordinates_to_original(
                     ag.image_preprocessor, result.bbox_2d[1])
             fails(result) == result.bbox_2d # None /\ original_bbox(result) = None
         IN  IF \E i \in 1..Len(segmentation_results) : fails(segmentation_results[i])
             THEN None
             ELSE Some([i \in 1..Len(segmentation_results) |->
                          IF segmentation_results[i].bbox_2d = None
                          THEN segmentation_results[i]
                          ELSE [segmentation_results[i] EXCEPT
                                   !.bbox_2d = original_bbox(segmentation_results[i])]])

\* the list handed to convert_coordinates_to_original, when the call is
\* over: each element is copied (result.copy()) before its 'bbox_2d' is
\* assigned, and the list itself is only read
segmentation_results_after(ag, segmentation_results) == segmentation_results

\* ask_about_image: the agent afterwards and the raw answer; raised when no
\* image is set, the image cannot be encoded or the request fails
ask_about_image(ag, reply) ==
    IF ag.image = None
    THEN [agent |-> ag, raised |-> TRUE, raw_result |-> NoText]
    ELSE LET image_path == ag.image[1]
             encoded == IF FileAt(image_path).url
                        THEN Some(ag)
                        ELSE encode_image_to_base64(ag, image_path)
         IN  IF encoded = None
             THEN [agent |-> ag, raised |-> TRUE, raw_result |-> NoText]
             ELSE IF reply.raised
                  THEN [agent |-> encoded[1], raised |-> TRUE, raw_result |-> NoText]
                  ELSE [agent |-> encoded[1], raised |-> FALSE,
                        raw_result |-> Text(reply.chars, reply.doc)]

\* the elements of the answer list in a raw answer; none when the text is
\* no JSON document or the document no list
segmentation_items(raw_result) ==
    LET cleaned_result == clean_json_from_markdown(raw_result.chars)
        segmentation_results == json_loads(cleaned_result, raw_result.doc)
    IN  IF segmentation_results = None THEN << >>
        ELSE IF segmentation_results[1].kind # "list" THEN << >>
        ELSE segmentation_results[1].items

\* the try block of ask_about_image_with_coordinate_conversion: the
\* converted list, or None where the except branches and the non-list
\* branch hand back raw_result
try_convert(ag, raw_result) ==
    LET cleaned_result == clean_json_from_markdown(raw_result.chars)
        segmentation_results == json_loads(cleaned_result, raw_result.doc)
    IN  IF segmentation_results = None
        THEN None
        ELSE IF segmentation_results[1].kind # "list"
             THEN None
             ELSE Agent_convert_coordinates_to_original(ag, segmentation_results[1].items)

convert_raw_result(ag, raw_result) ==
    LET converted_results == try_convert(ag, raw_result)
    IN  AgentOutcome("ask", "returned", ag.image,
            IF converted_results = None THEN raw_result
            ELSE json_dumps([kind |-> "list", items |-> converted_results[1]]),
            boxes_of(segmentation_items(raw_result)),
            IF converted_results = None \/ ag.scale_info = None THEN None ELSE ag.scale_owner,
            ag)

ask_about_image_with_coordinate_conversion(ag, reply) ==
    LET asked == ask_about_image(ag, reply)
    IN  IF asked.raised
        THEN AgentOutcome("ask", "raised", ag.image, NoText, << >>, None, asked.agent)
        ELSE convert_raw_result(asked.agent, asked.raw_result)

\* what the caller of the last call saw
Seen(outcome) == [f \in DOMAIN outcome \ {"agent"} |-> outcome[f]]

NoCall == Seen(AgentOutcome("none", "pending", None, NoText, << >>, None, NewAgent))

\* set_image(image_path)
SetImage ==
    \E image_path \in AgentPaths :
        LET fails == IF image_path = "" THEN TRUE
                     ELSE ~FileAt(image_path).url /\ ~FileAt(image_path).exists
            after == IF fails THEN agent ELSE [agent EXCEPT !.image = Some(image_path)]
        IN  /\ agent' = after
            /\ agentOut' = Seen(AgentOutcome("set_image", IF fails THEN "raised" ELSE "returned",
                                             after.image, NoText, << >>, None, after))
            /\ UNCHANGED <<pipelineVars, parsed, mapperVars>>

\* ask_about_image_with_coordinate_conversion() against one reply of the
\* recognition capability
AskWithCoordinateConversion ==
    \E reply \in AgentReplies :
        LET outcome == ask_about_image_with_coordinate_conversion(agent, reply)
        IN  /\ agent' = outcome.agent
            /\ agentOut' = Seen(outcome)
            /\ UNCHANGED <<pipelineVars, parsed, mapperVars>>

\* _encode_image_to_base64(self.image) on the image that is set; a URL is
\* no file Image.open can read
EncodeImage ==
    /\ agent.image # None
    /\ LET encoded == IF FileAt(agent.image[1]).url THEN None
                      ELSE encode_image_to_base64(agent, agent.image[1])
       IN  /\ agent' = IF encoded = None THEN agent ELSE encoded[1]
           /\ agentOut' = Seen(AgentOutcome("encode",
                                   IF encoded = None THEN "raised" ELSE "returned",
                                   agent.image, NoText, << >>, None, agent))
    /\ UNCHANGED <<pipelineVars, parsed, mapperVars>>

\* a direct call of the agent's convert_coordinates_to_original
AgentConvertCoordinates ==
    \E items \in SeqsUpTo(ConvertItems, MaxBoxes) :
        LET converted == Agent_convert_coordinates_to_original(agent, items)
            outcome == AgentOutcome("convert",
                                    IF converted = None THEN "raised" ELSE "returned",
                                    agent.image,
                                    IF converted = None THEN NoText
                                    ELSE json_dumps([kind |-> "list", items |-> converted[1]]),
                                    boxes_of(items),
                                    IF agent.scale_info = None \/ converted = None
                                    THEN None ELSE agent.scale_owner,
                                    agent)
        IN  /\ agentOut' = Seen([outcome EXCEPT
                                    !.items = items,
                                    !.items_after = segmentation_results_after(agent, items)])
            /\ UNCHANGED <<agent, pipelineVars, parsed, mapperVars>>

\* a direct call of the preprocessor's convert_coordinates_to_original
MapperConvertCoordinates ==
    \E bbox \in AgentBoxes :
        LET converted ==
                Preprocessor_convert_coordinates_to_original(agent.image_preprocessor, bbox)
        IN  /\ agentOut' = Seen(AgentOutcome("map",
                                    IF converted = None THEN "raised" ELSE "returned",
                                    agent.image,
                                    IF converted = None THEN NoText
                                    ELSE json_dumps([kind |-> "box", items |-> converted[1]]),
                                    <<bbox>>,
                                    IF converted = None THEN None ELSE agent.scale_owner,
                                    agent))
            /\ UNCHANGED <<agent, pipelineVars, parsed, mapperVars>>

\* a direct call of the preprocessor's convert_coordinates_list_to_original
MapperConvertCoordinatesList ==
    \E bboxes \in SeqsUpTo(MapperBoxes, MaxBoxes) :
        LET converted == Preprocessor_convert_coordinates_list_to_original(
                             agent.image_preprocessor, bboxes)
        IN  /\ agentOut' = Seen(AgentOutcome("map_list",
                                    IF converted = None THEN "raised" ELSE "returned",
                                    agent.image,
                                    IF converted = None THEN NoText
                                    ELSE json_dumps([kind |-> "boxes", items |-> converted[1]]),
                                    bboxes,
                                    IF converted = None THEN None ELSE agent.scale_owner,
                                    agent))
            /\ UNCHANGED <<agent, pipelineVars, parsed, mapperVars>>

AgentInit == agent = NewAgent /\ agentOut = NoCall

NextAgent ==
    \/ SetImage
    \/ AskWithCoordinateConversion
    \/ AgentConvertCoordinates
    \/ MapperConvertCoordinates

\* the conversions on their own, after set_image and the encoding
NextConvert ==
    \/ SetImage
    \/ EncodeImage
    \/ AgentConvertCoordinates
    \/ MapperConvertCoordinatesList

(***************************************************************************)
(* Response parsers                                                        *)
(***************************************************************************)
\* the documents handed to the parsers: detection answers and answer lists
\* a detection answer whose box has its corners exchanged
SwappedDetectionDocs ==
    {[kind |-> "dict",
      objects |-> <<[object_id |-> "obj_1", label |-> "mug", confidence |-> 9,
                     bounding_box |-> <<300, 50, 100, 200>>]>>]}

ParserDocs ==
    DetectionDocs \cup SwappedDetectionDocs \cup {d \in AgentDocs : d.kind = "list"}

ParserTexts ==
    {Text(c, NoDoc) : c \in MalformedChars}
    \cup {Text(c, d) : c \in {<<DOC>>, <<" ", DOC, NL>>, FencedJsonChars, FencedChars},
                       d \in ParserDocs}

\* what a parser handed back: kind is "returned" or "raised", result names
\* the shape of the value, raw is the raw text a raised error carries
ParseOutcome(parser, text, kind, result, value, raw) ==
    [parser |-> parser, text |-> text, kind |-> kind, result |-> result,
     value |-> value, raw |-> raw]

\* a text waiting for a parser
NotParsed(text) == ParseOutcome("none", text, "pending", "", << >>, None)

\* the box sentence_to_dict stores: corners ordered, int() of each number
\* (the numbers of the model's documents are integers, which int(float(x))
\* leaves as they are)
ordered_bbox(bbox) ==
    LET x1 == Min(bbox[1], bbox[3])
        x2 == Max(bbox[1], bbox[3])
        y1 == Min(bbox[2], bbox[4])
        y2 == Max(bbox[2], bbox[4])
    IN  <<x1, y1, x2, y2>>

\* the validated_results of sentence_to_dict
RECURSIVE validated_results(_)
validated_results(items) ==
    IF items = << >> THEN << >>
    ELSE LET item == Head(items)
             bbox == IF item.bbox_2d = None THEN << >> ELSE item.bbox_2d[1]
         IN  (IF Len(bbox) # 4 THEN << >>
              ELSE <<[item EXCEPT !.bbox_2d = Some(ordered_bbox(bbox))]>>)
             \o validated_results(Tail(items))

\* sentence_to_dict(sentence)
sentence_to_dict(sentence) ==
    IF strip(sentence.chars) = << >>
    THEN ParseOutcome("sentence_to_dict", sentence, "returned", "empty dict", << >>, None)
    ELSE LET cleaned_text == clean_json_from_markdown(sentence.chars)
             parsed_result == json_loads(cleaned_text, sentence.doc)
         IN  IF parsed_result = None
             THEN ParseOutcome("sentence_to_dict", sentence, "returned", "empty dict",
                               << >>, None)
             ELSE IF parsed_result[1].kind = "list"
                  THEN ParseOutcome("sentence_to_dict", sentence, "returned",
                                    "segmentation_results",
                                    validated_results(parsed_result[1].items), None)
                  ELSE ParseOutcome("sentence_to_dict", sentence, "returned", "document",
                                    <<parsed_result[1]>>, None)

\* sentence_to_dict(sentence) of ObjectDetectionTest.py
detection_sentence_to_dict(sentence) ==
    IF strip(sentence.chars) = << >>
    THEN ParseOutcome("detection sentence_to_dict", sentence, "returned", "empty dict",
                      << >>, None)
    ELSE LET cleaned_text == clean_json_from_markdown(sentence.chars)
             parsed_result == json_loads(cleaned_text, sentence.doc)
         IN  IF parsed_result = None
             THEN ParseOutcome("detection sentence_to_dict", sentence, "returned",
                               "empty dict", << >>, None)
             ELSE IF parsed_result[1].kind = "list"
                  THEN ParseOutcome("detection sentence_to_dict", sentence, "returned",
                                    "detection_results", parsed_result[1].items, None)
                  ELSE ParseOutcome("detection sentence_to_dict", sentence, "returned",
                                    "document", <<parsed_result[1]>>, None)

\* an agent that has just preprocessed the landscape image
AgentWithRecord ==
    encode_image_to_base64([NewAgent EXCEPT !.image = Some("big.jpg")], "big.jpg")[1]

SentenceToDict ==
    /\ parsed.parser = "none"
    /\ parsed' = sentence_to_dict(parsed.text)
    /\ UNCHANGED <<pipelineVars, agentVars, mapperVars>>

DetectionSentenceToDict ==
    /\ parsed.parser = "none"
    /\ parsed' = detection_sentence_to_dict(parsed.text)
    /\ UNCHANGED <<pipelineVars, agentVars, mapperVars>>

\* _parse_detection_response(response, image_shape)
ParseDetectionResponse ==
    /\ parsed.parser = "none"
    /\ LET response == parsed.text
           result == parse_detection_response(Reply(FALSE, response.chars, response.doc))
       IN  /\ parsed' = ParseOutcome("_parse_detection_response", response, "returned",
                             IF result.success THEN "objects" ELSE "error dict",
                             IF result.success THEN result.objects ELSE <<result.error>>,
                             None)
           /\ UNCHANGED <<pipelineVars, agentVars, mapperVars>>

\* the parsing half of ask_about_image_with_coordinate_conversion
ParseSegmentationAnswer ==
    /\ parsed.parser = "none"
    /\ LET raw_result == parsed.text
           converted_results == try_convert(AgentWithRecord, raw_result)
       IN  /\ parsed' = ParseOutcome("ask_about_image_with_coordinate_conversion",
                             raw_result, "returned",
                             IF converted_results = None THEN "raw text" ELSE "converted list",
                             IF converted_results = None THEN <<raw_result.chars>>
                             ELSE converted_results[1],
                             None)
           /\ UNCHANGED <<pipelineVars, agentVars, mapperVars>>

ParserInit == parsed = NotParsed(NoText)

NextParser ==
    \/ SentenceToDict
    \/ DetectionSentenceToDict
    \/ ParseDetectionResponse
    \/ ParseSegmentationAnswer

(***************************************************************************)
(* Cleaning of fenced answers                                              *)
(* (src/Agents/PreciseSegmentationAgent.py, src/PreciseSegmentationTest.py)*)
(***************************************************************************)
MaxPayload == 3

\* payloads without a backtick, hence without a fence line
Payloads == SeqsUpTo({DOC, " ", NL}, MaxPayload)

CleanForms == {"bare", "json fence", "fence", "json fence, same line"}

\* the answer that carries payload p in the given form
Fenced(form, p) ==
    CASE form = "bare" -> p
      [] form = "json fence" -> FENCE_JSON \o <<NL>> \o p \o <<NL>> \o FENCE
      [] form = "fence" -> FENCE \o p \o FENCE
      [] form = "json fence, same line" -> FENCE_JSON \o <<" ">> \o p \o <<NL>> \o FENCE

\* an answer waiting to be cleaned: result names its form, raw its payload,
\* value collects the successive outputs of the cleaner
NotCleaned(form, p) ==
    ParseOutcome("none", Text(Fenced(form, p), NoDoc), "pending", form, << >>, Some(p))

\* clean_json_from_markdown on the answer, then on its own output
CleanJsonFromMarkdown ==
    /\ parsed.result \in CleanForms
    /\ Len(parsed.value) < 2
    /\ LET text == IF parsed.value = << >> THEN parsed.text.chars
                   ELSE parsed.value[Len(parsed.value)]
       IN  parsed' = [parsed EXCEPT !.parser = "clean_json_from_markdown",
                                    !.kind = "returned",
                                    !.value = Append(@, clean_json_from_markdown(text))]
    /\ UNCHANGED <<pipelineVars, agentVars, mapperVars>>

NextClean == CleanJsonFromMarkdown

(***************************************************************************)
(* Requests in flight on one ImagePreprocessor                             *)
(* (src/Utiles/ImagePreprocessor.py)                                       *)
(***************************************************************************)
\* the requests that share the preprocessor
RequestIds == {"A", "B"}

\* the local files a request can name
MapperFiles == {f \in AgentFiles : ~f.url /\ f.readable = f.exists}

\* a request: the file it named, the scale info preprocess_image returned
\* to it, and its conversion call (call: "none", "single" or "list"; bboxes:
\* the argument; used: the preprocessor's fields when the call was made;
\* result: Optional list of converted boxes, None for the ValueError)
MapperRequest(file, scale_info, call, bboxes, used, result) ==
    [file |-> file, scale_info |-> scale_info, call |-> call, bboxes |-> bboxes,
     used |-> used, result |-> result]

NewRequest == MapperRequest(None, None, "none", << >>, None, None)

\* request rq calls preprocess_image(image_path)
PreprocessImage ==
    \E rq \in RequestIds, f \in MapperFiles :
        /\ mapper.requests[rq].file = None
        /\ LET out == preprocess_image(mapper.preprocessor, f)
           IN  mapper' = [preprocessor |-> out.pre,
                          requests |-> [mapper.requests EXCEPT
                              ![rq] = [@ EXCEPT !.file = Some(f),
                                                !.scale_info = out.value]]]
        /\ UNCHANGED <<pipelineVars, agentVars, parsed, resized, configured, planned, saver>>

\* request rq, its image preprocessed, calls
\* convert_coordinates_to_original(bbox)
ConvertCoordinates ==
    \E rq \in RequestIds, bbox \in MapperBoxes :
        /\ mapper.requests[rq].scale_info # None
        /\ mapper.requests[rq].call = "none"
        /\ LET out == Preprocessor_convert_coordinates_to_original(mapper.preprocessor, bbox)
           IN  mapper' = [mapper EXCEPT !.requests[rq] =
                   [@ EXCEPT !.call = "single", !.bboxes = <<bbox>>,
                             !.used = Some(get_scale_info(mapper.preprocessor)),
                             !.result = IF out = None THEN None ELSE Some(<<out[1]>>)]]
        /\ UNCHANGED <<pipelineVars, agentVars, parsed, resized, configured, planned, saver>>

\* request rq, its image preprocessed, calls
\* convert_coordinates_list_to_original(bboxes)
ConvertCoordinatesList ==
    \E rq \in RequestIds, bboxes \in SeqsUpTo(MapperBoxes, MaxBoxes) :
        /\ mapper.requests[rq].scale_info # None
        /\ mapper.requests[rq].call = "none"
        /\ mapper' = [mapper EXCEPT !.requests[rq] =
               [@ EXCEPT !.call = "list", !.bboxes = bboxes,
                         !.used = Some(get_scale_info(mapper.preprocessor)),
                         !.result = Preprocessor_convert_coordinates_list_to_original(
                                        mapper.preprocessor, bboxes)]]
        /\ UNCHANGED <<pipelineVars, agentVars, parsed, resized, configured, planned, saver>>

MapperInit ==
    mapper = [preprocessor |-> NewPreprocessor, requests |-> [rq \in RequestIds |-> NewRequest]]

NextMapper ==
    \/ PreprocessImage
    \/ ConvertCoordinates
    \/ ConvertCoordinatesList

(***************************************************************************)
(* The two resize functions (ImagePreprocessor.resize_image,               *)
(* ImageProcessor._resize_image) on one image                              *)
(***************************************************************************)
\* widths and heights: inside, at and above the bounds
ResizeSides == {512, 600, 800, 1000, 1024, 1025, 1122, 1200, 1600, 1601, 2048}

\* sizes of extreme aspect ratio: a line of pixels and a two-pixel strip
ExtremeSizes == {<<2048, 1>>, <<1, 2048>>, <<1025, 2>>, <<2, 1600>>}

ResizeSizes == (ResizeSides \X ResizeSides) \cup ExtremeSizes

\* values of max_size
ResizeBounds == {MAX_SIZE, 512, 1000}

\* an application of a resize function (by: "none" before the call), what it
\* computed as the new size, whether the image went through the resampling
\* filter and whether the filter refused the new size
Resized(by, size, max_size, working_size, scale_factor, resampled, raised) ==
    [by |-> by, size |-> size, max_size |-> max_size, working_size |-> working_size,
     scale_factor |-> scale_factor, resampled |-> resampled, raised |-> raised]

NotResized(size, max_size) == Resized("none", size, max_size, size, None, FALSE, FALSE)

\* resize_image resampling an image that has a side equal to max_size
Preprocessor_resamples_at_bound(size, max_size) ==
    ~(size[1] < max_size /\ size[2] < max_size)

\* ImagePreprocessor.resize_image returns the image itself inside the bound
\* and image.resize(...) above it
Preprocessor_resamples(size, max_size) == ~(size[1] <= max_size /\ size[2] <= max_size)

\* ImageProcessor._resize_image returns the image itself inside the bound
\* and cv2.resize(...) above it
ImageProcessor_resamples(size, max_size) == ~(Max(size[2], size[1]) <= max_size)

\* ImagePreprocessor().resize_image(image, max_size) on a preprocessor of
\* its own
PreprocessorResizeImage ==
    /\ resized.by = "none"
    /\ LET after == Preprocessor_resize_image(resized.size, resized.max_size)
       IN  resized' = Resized("ImagePreprocessor", resized.size, resized.max_size,
                              after.processed_size[1], after.scale_factor,
                              Preprocessor_resamples(resized.size, resized.max_size),
                              /\ Preprocessor_resamples(resized.size, resized.max_size)
                              /\ resize_raises(after.processed_size[1]))
    /\ UNCHANGED <<pipelineVars, agentVars, parsed, mapper, configured, planned, saver>>

\* ImageProcessor(max_size)._resize_image(image)
ProcessorResizeImage ==
    /\ resized.by = "none"
    /\ LET new_size == ImageProcessor_resize_image(resized.size, resized.max_size)
       IN  resized' = Resized("ImageProcessor", resized.size, resized.max_size,
                              new_size, None,
                              ImageProcessor_resamples(resized.size, resized.max_size),
                              /\ ImageProcessor_resamples(resized.size, resized.max_size)
                              /\ resize_raises(new_size))
    /\ UNCHANGED <<pipelineVars, agentVars, parsed, mapper, configured, planned, saver>>

ResizeInit == resized = NotResized(<<MAX_SIZE, MAX_SIZE>>, MAX_SIZE)

NextResize ==
    \/ PreprocessorResizeImage
    \/ ProcessorResizeImage

(***************************************************************************)
(* preprocess_image with its max_size and quality arguments                *)
(***************************************************************************)
\* values of max_size: the default, a smaller one, zero and a negative one
ConfigBounds == {MAX_SIZE, 512, 0, -1}

\* values of quality: the default and values outside 1..100
ConfigQualities == {JPEG_QUALITY, 0, 101}

\* the preprocessor before the call: new, or holding the record of the
\* landscape image
ConfigPreprocessors ==
    {NewPreprocessor, Preprocessor_resize_image(<<1600, 1200>>, MAX_SIZE)}

\* a preprocess_image call: its arguments, the preprocessor before and
\* after, and how it ended
Configured(called, file, max_size, quality, before, raised, after) ==
    [called |-> called, file |-> file, max_size |-> max_size, quality |-> quality,
     before |-> before, raised |-> raised, after |-> after]

NotConfigured(file, max_size, quality, before) ==
    Configured(FALSE, file, max_size, quality, before, FALSE, before)

\* preprocess_image(image_path, max_size, quality)
PreprocessImageWith ==
    /\ ~configured.called
    /\ LET out == preprocess_image_with(configured.before, configured.file,
                                        configured.max_size, configured.quality)
       IN  configured' = [configured EXCEPT !.called = TRUE, !.raised = out.raised,
                                            !.after = out.pre]
    /\ UNCHANGED <<pipelineVars, agentVars, parsed, mapper, resized, planned, saver>>

ConfigInit ==
    configured = NotConfigured(FileAt("small.jpg"), MAX_SIZE, JPEG_QUALITY, NewPreprocessor)

NextConfig == PreprocessImageWith

(***************************************************************************)
(* Strategy resolution on its own                                          *)
(* (src/src/agents/interaction_strategist.py)                              *)
(***************************************************************************)
\* the scenes scene analysis can hand over
StrategyScenes == SeqsUpTo({parse_detected(o) : o \in ObjData}, MaxObjects)

\* intents: one mapped to the cup, one to the knife as its third category, one
\* to a category no object has, the default of a failed analysis; without an
\* id, with the id of an object, with an id no object has
StrategyIntents ==
    {UserIntent(t, i) : t \in {"drink", "dine", "cut", "unknown intent"},
                        i \in {None, Some("obj_2"), Some("obj_9")}}

\* _build_functional_parts_knowledge
LoadedKnowledge ==
    [c \in {"cup", "scissors", "knife", "bottle"} |-> functional_parts_knowledge(c)]

\* a table whose cup has no part above the safety threshold, at the threshold
\* at best, and whose knife lists the unsafe part with the better priority
CautiousKnowledge ==
    [c \in {"cup", "knife"} |->
        IF c = "cup"
        THEN <<FunctionalPart("cup body", 30, 50, 1), FunctionalPart("rim", 50, 20, 2),
               FunctionalPart("base", 50, 40, 3)>>
        ELSE <<FunctionalPart("blade", 5, 10, 1), FunctionalPart("knife handle", 85, 90, 3),
               FunctionalPart("bolster", 60, 40, 2), FunctionalPart("spine", 55, 30, 2)>>]

KnowledgeTables == {LoadedKnowledge, CautiousKnowledge}

Planned(called, user_intent, objects, knowledge, loaded, strat) ==
    [called |-> called, user_intent |-> user_intent, objects |-> objects,
     functional_parts_knowledge |-> knowledge, loaded |-> loaded, strategy |-> strat]

\* a strategist holding a table, about to be asked for a strategy
NotPlanned(user_intent, objects, knowledge) ==
    Planned(FALSE, user_intent, objects, knowledge, knowledge, None)

\* create_interaction_strategy: reads self.functional_parts_knowledge
CreateInteractionStrategy ==
    /\ ~planned.called
    /\ planned' = [planned EXCEPT
                      !.called = TRUE,
                      !.strategy = create_interaction_strategy_with(
                                       planned.functional_parts_knowledge,
                                       planned.user_intent, planned.objects)]
    /\ UNCHANGED <<pipelineVars, agentVars, parsed, mapper, resized, configured, saver>>

StrategyInit == planned = NotPlanned(UserIntent("unknown intent", None), << >>, LoadedKnowledge)

NextStrategy == CreateInteractionStrategy

(***************************************************************************)
(* Run directories (src/Utiles/ResultSaver.py, save_result of              *)
(* src/PreciseSegmentationTest.py)                                         *)
(***************************************************************************)
\* the runs that save into the same Output directory
Runs == {"first", "second"}

\* how many run directories the runs create in one behaviour
MaxRuns == 3

\* the NNNRun directories found in Output at the start, by number
ExistingRuns == SUBSET {0, 1, 4}

\* one creation of a run directory: the run, its number, the numbers of the
\* directories that existed when it was created, and whether a directory was
\* created between this run's two calls
Creation(run, run_number, existing, interleaved) ==
    [run |-> run, run_number |-> run_number, existing |-> existing,
     interleaved |-> interleaved]

\* exists: whether Output exists; dirs: the numbers of its NNNRun
\* directories; at: each run's position (a run holds its number between the
\* two calls); listed: the directories its get_next_run_number found;
\* created: the creations so far
Saver(exists, dirs) ==
    [exists |-> exists, dirs |-> dirs,
     at |-> [r \in Runs |-> "start"],
     run_number |-> [r \in Runs |-> None],
     listed |-> [r \in Runs |-> {}],
     created |-> << >>]

SetMax(S) == CHOOSE x \in S : \A y \in S : y <= x

\* get_next_run_number: 0 after creating a missing Output, else one more than
\* the largest number among the NNNRun directories (max_num starts at -1)
get_next_run_number(exists, dirs) ==
    IF ~exists THEN 0
    ELSE IF dirs = {} THEN 0
    ELSE SetMax(dirs) + 1

GetNextRunNumber(r) ==
    /\ saver.at[r] = "start"
    /\ Len(saver.created) + Cardinality({q \in Runs : saver.at[q] = "numbered"}) < MaxRuns
    /\ saver' = [saver EXCEPT
                    !.exists = TRUE,
                    !.at[r] = "numbered",
                    !.listed[r] = saver.dirs,
                    !.run_number[r] = Some(get_next_run_number(saver.exists, saver.dirs))]
    /\ UNCHANGED <<pipelineVars, agentVars, parsed, mapper, resized, configured, planned>>

\* create_run_directory / save_result: os.makedirs(run_dir, exist_ok=True)
CreateRunDirectory(r) ==
    /\ saver.at[r] = "numbered"
    /\ saver' = [saver EXCEPT
                    !.exists = TRUE,
                    !.dirs = @ \cup {saver.run_number[r][1]},
                    !.at[r] = "start",
                    !.run_number[r] = None,
                    !.listed[r] = {},
                    !.created = Append(@, Creation(r, saver.run_number[r][1], saver.dirs,
                                                   saver.dirs # saver.listed[r]))]
    /\ UNCHANGED <<pipelineVars, agentVars, parsed, mapper, resized, configured, planned>>

SaverInit == saver = Saver(FALSE, {})

NextSaver ==
    \/ \E r \in Runs : GetNextRunNumber(r)
    \/ \E r \in Runs : CreateRunDirectory(r)

PipelineInit ==
    /\ pc = "idle"
    /\ req = NoRequest
    /\ pipeline = ProcessingPipeline(STAGE_INIT, << >>)
    /\ scene_result = None
    /\ strategy = None
    /\ exc = None
    /\ ret = Pending
    /\ hist = << >>

Init == PipelineInit /\ AgentInit /\ ParserInit /\ MapperInit /\ ResizeInit /\ ConfigInit /\ StrategyInit /\ SaverInit

\* the parsers start from any of the texts
InitParser ==
    /\ PipelineInit /\ AgentInit /\ MapperInit /\ ResizeInit /\ ConfigInit /\ StrategyInit /\ SaverInit
    /\ parsed \in {NotParsed(t) : t \in ParserTexts}

\* the resize functions start from any image size and bound
InitResize ==
    /\ PipelineInit /\ AgentInit /\ ParserInit /\ MapperInit /\ ConfigInit /\ StrategyInit /\ SaverInit
    /\ resized \in {NotResized(size, max_size) : size \in ResizeSizes, max_size \in ResizeBounds}

Next ==
    \/ StartProcess
    \/ ValidateInputs
    \/ StageSceneAnalysis
    \/ StageStrategyPlanning
    \/ StagePrecisionSegmentation
    \/ ProcessExcept
    \/ ReturnToCaller

Spec == Init /\ [][Next]_vars

SpecAgent == Init /\ [][NextAgent]_vars

SpecParser == InitParser /\ [][NextParser]_vars

SpecConvert == Init /\ [][NextConvert]_vars

SpecMapper == Init /\ [][NextMapper]_vars

SpecResize == InitResize /\ [][NextResize]_vars

\* preprocess_image starts from any file, max_size, quality and preprocessor
InitConfig ==
    /\ PipelineInit /\ AgentInit /\ ParserInit /\ MapperInit /\ ResizeInit /\ StrategyInit /\ SaverInit
    /\ configured \in {NotConfigured(f, max_size, quality, before) :
                           f \in MapperFiles, max_size \in ConfigBounds,
                           quality \in ConfigQualities, before \in ConfigPreprocessors}

\* the cleaner starts from any payload in any form
InitClean ==
    /\ PipelineInit /\ AgentInit /\ MapperInit /\ ResizeInit /\ ConfigInit /\ StrategyInit /\ SaverInit
    /\ parsed \in {NotCleaned(form, p) : form \in CleanForms, p \in Payloads}

SpecConfig == InitConfig /\ [][NextConfig]_vars

\* strategy resolution starts from any intent, scene and table
InitStrategy ==
    /\ PipelineInit /\ AgentInit /\ ParserInit /\ MapperInit /\ ResizeInit /\ ConfigInit /\ SaverInit
    /\ planned \in {NotPlanned(i, os, k) :
                       i \in StrategyIntents, os \in StrategyScenes, k \in KnowledgeTables}

SpecStrategy == InitStrategy /\ [][NextStrategy]_vars

\* the runs start on an Output directory that is missing, empty or holds run
\* directories
InitSaver ==
    /\ PipelineInit /\ AgentInit /\ ParserInit /\ MapperInit /\ ResizeInit /\ ConfigInit
    /\ StrategyInit
    /\ saver \in {Saver(FALSE, {})} \cup {Saver(TRUE, dirs) : dirs \in ExistingRuns}

SpecSaver == InitSaver /\ [][NextSaver]_vars

SpecClean == InitClean /\ [][NextClean]_vars

(***************************************************************************)
(* Properties of process                                                   *)
(***************************************************************************)
Range(f) == {f[i] : i \in DOMAIN f}

Failed == pc = "done" /\ exc # None

HasEvent(ev, stage, info) == \E i \in 1..Len(hist) : hist[i] = Event(ev, stage, info)

Entered(stage) == HasEvent("enter", stage, "")

\* the stage whose method was running when the failure arose
FailedStage == pipeline.stage

\* C1: whenever input validation or a stage fails, process returns (does not
\* raise) a result with success = false and a non-empty error_message
C1_FailureIsReturned ==
    Failed =>
        /\ ret.kind = "returned"
        /\ ret.result # None
        /\ ~ret.result[1].success
        /\ ret.result[1].error_message # None
        /\ ret.result[1].error_message[1] # << >>

\* C2: a failed run is reported as exactly one failure naming the failing
\* stage: the returned result names the stage, and pipeline.errors holds
\* exactly one entry, which names it
C2_OneFailureNamingStage ==
    Failed =>
        /\ ret.kind = "returned"
        /\ ret.result # None
        /\ ret.result[1].error_message # None
        /\ Mentions(ret.result[1].error_message[1], FailedStage)
        /\ Len(pipeline.errors) = 1
        /\ Mentions(pipeline.errors[1], FailedStage)

\* scene analysis failed: the image could not be loaded, the recognition
\* call raised or its answer was rejected (what analyze_scene logs as
\* "scene analysis failed")
SceneAnalysisFailed ==
    \E i \in 1..Len(hist) : hist[i].ev = "swallowed" /\ hist[i].stage = STAGE_SCENE

\* C3: if scene analysis fails, strategy resolution and region extraction are
\* never invoked, completed is empty and errors is the one scene-analysis entry
C3_SceneFailureShortCircuits ==
    SceneAnalysisFailed =>
        /\ ~Entered(STAGE_STRATEGY)
        /\ ~Entered(STAGE_SEGMENT)
        /\ pipeline.completed_stages = << >>
        /\ Len(pipeline.errors) = 1
        /\ Mentions(pipeline.errors[1], STAGE_SCENE)

\* the recognition capability answered the detection call with zero objects
EmptyScene == HasEvent("invoke", STAGE_SCENE, "no objects")

\* C4: a recognition result of zero objects is a successful scene analysis
\* (its name is appended to completed, no scene error is recorded), the empty
\* list is handed to strategy resolution, and the run then fails there with
\* the cause "no valid interaction strategy"
C4_EmptySceneFailsInStrategy ==
    EmptyScene =>
        /\ pipeline.completed_stages = <<STAGE_SCENE>>
        /\ scene_result = Some(<< >>)
        /\ \A i \in 1..Len(pipeline.errors) : ~Mentions(pipeline.errors[i], STAGE_SCENE)
        /\ strategy = None
        /\ ~Entered(STAGE_SEGMENT)
        /\ pc \in {"strategy", "except", "done"}
        /\ pc # "strategy" =>
              /\ Entered(STAGE_STRATEGY)
              /\ pipeline.errors =
                     <<StageError(STAGE_STRATEGY, <<"no valid interaction strategy">>)>>
              /\ exc = Some(<<"no valid interaction strategy">>)

C4_Witness ==
    /\ EmptyScene
    /\ pc = "done"
    /\ pipeline.completed_stages = <<STAGE_SCENE>>
    /\ Len(pipeline.errors) = 1
    /\ Mentions(pipeline.errors[1], STAGE_STRATEGY)

EarlierStages(stage) ==
    {StageOrder[j] : j \in {k \in 1..Len(StageOrder) :
                              \E m \in 1..Len(StageOrder) : StageOrder[m] = stage /\ k < m}}

\* C5: region extraction is entered only after strategy resolution completed,
\* with the strategy it produced in this run for an object of this run's
\* scene; strategy resolution only after scene analysis completed with an
\* object list; no stage is entered while an earlier one is not in completed
C5_StageOrdering ==
    /\ \A i \in 1..Len(hist) :
          hist[i].ev = "enter" =>
              EarlierStages(hist[i].stage) \subseteq Range(pipeline.completed_stages)
    /\ (pc = "strategy" \/ Entered(STAGE_STRATEGY)) =>
          /\ scene_result # None
          /\ pipeline.completed_stages[1] = STAGE_SCENE
    /\ (pc = "segment" \/ Entered(STAGE_SEGMENT)) =>
          /\ SubSeq(pipeline.completed_stages, 1, 2) = <<STAGE_SCENE, STAGE_STRATEGY>>
          /\ strategy # None
          /\ strategy[1].target_object \in Range(scene_result[1])
    /\ (ret.kind = "returned" /\ ret.result # None /\ ret.result[1].success) =>
          /\ ret.result[1].strategy_used = strategy
          /\ ret.result[1].mask.target_object_id = strategy[1].target_object.object_id

C5_Witness ==
    /\ Entered(STAGE_SEGMENT)
    /\ pipeline.completed_stages = StageOrder
    /\ ret.kind = "returned"
    /\ ret.result[1].success

\* C6: if the recognition capability's text cannot be parsed in a stage,
\* that stage fails and the run ends as a failure naming it; no stage puts a
\* default in its place and lets the pipeline continue
C6_MalformedResponseFailsStage ==
    \A i \in 1..Len(hist) :
        (hist[i].ev = "invoke" /\ hist[i].info = "malformed") =>
            /\ hist[i].stage \notin Range(pipeline.completed_stages)
            /\ Len(pipeline.errors) = 1
            /\ Mentions(pipeline.errors[1], hist[i].stage)
            /\ ~\E j \in 1..Len(hist) : hist[j].ev = "enter" /\ j > i

\* C10: on every successful call the mask handed back is in the original
\* image's pixel space: for an answer that covers the working image, its
\* width and height are those of the original image, also when the image
\* was downscaled
C10_MaskInOriginalSpace ==
    (/\ pc = "done"
     /\ ret.kind = "returned"
     /\ ret.result # None
     /\ ret.result[1].success
     /\ HasEvent("invoke", STAGE_SEGMENT, "faithful")) =>
        /\ ret.result[1].mask.width = req.size[1]
        /\ ret.result[1].mask.height = req.size[2]

(***************************************************************************)
(* Properties of the PreciseSegmentationAgent                              *)
(***************************************************************************)
\* C8: in every sequence of set_image and
\* ask_about_image_with_coordinate_conversion calls on one agent, the scale
\* record applied to a request's boxes is the one produced from that
\* request's image, never one left over from an earlier image
C8_ScaleRecordOfSameImage ==
    (/\ agentOut.op = "ask"
     /\ agentOut.kind = "returned"
     /\ agentOut.boxes # << >>
     /\ agentOut.record_of # None) =>
        agentOut.record_of = agentOut.image

\* C9: asked to map boxes while no scale record is available, the mapper and
\* the agent around it fail with an error and return no coordinates
C9_NoRecordNoCoordinates ==
    (/\ agentOut.op \in {"map", "convert", "ask"}
     /\ agentOut.boxes # << >>
     /\ agent.scale_info = None) =>
        agentOut.kind = "raised"

(***************************************************************************)
(* Properties of the response parsers                                      *)
(***************************************************************************)
\* the text is no JSON document, with or without a markdown fence around it
NotStructurallyValid(text) ==
    json_loads(clean_json_from_markdown(text.chars), text.doc) = None

\* C7: a parser given text that is not structurally valid raises an error
\* that carries the raw text; it returns neither a default empty structure
\* nor a guessed one nor the raw text itself
C7_MalformedTextRaises ==
    (parsed.parser # "none" /\ NotStructurallyValid(parsed.text)) =>
        /\ parsed.kind = "raised"
        /\ parsed.raw = Some(parsed.text.chars)

(***************************************************************************)
(* Properties of the shared ImagePreprocessor and of the resize functions  *)
(***************************************************************************)
\* the requests that made their conversion call
Mapped(rq) == mapper.requests[rq].call # "none"

\* the preprocessor fields a request was handed by its own preprocess_image
OwnRecord(rq) == mapper.requests[rq].scale_info[1]

\* C11: independent requests do not interfere: whatever the interleaving of
\* two requests on the preprocessor, the boxes of a request are converted
\* with the scale record of its own image, and the original_size and
\* scale_factor of the other request's image are never the ones used.
C11_RequestsDoNotInterfere ==
    \A rq \in RequestIds :
        Mapped(rq) =>
            /\ mapper.requests[rq].used = mapper.requests[rq].scale_info
            /\ mapper.requests[rq].result =
                   Preprocessor_convert_coordinates_list_to_original(
                       OwnRecord(rq), mapper.requests[rq].bboxes)

\* a resize function was applied to the image
WasResized == resized.by # "none"

WithinBound == resized.size[1] <= resized.max_size /\ resized.size[2] <= resized.max_size

\* C12: scale idempotence: for an original size whose width and height are
\* both at most the bound (equal to it included), a resize function leaves
\* the size as it is, with scale factor 1.0 where it keeps one, and returns
\* the image without resampling it.
C12_ScaleIdempotence ==
    (WasResized /\ WithinBound) =>
        /\ resized.working_size = resized.size
        /\ ~resized.resampled
        /\ resized.by = "ImagePreprocessor" =>
               /\ resized.scale_factor # None
               /\ resized.scale_factor[1].num = resized.scale_factor[1].den

\* an image with a side equal to the bound went through resize_image
C12_Witness ==
    /\ resized.by = "ImagePreprocessor"
    /\ resized.size = <<MAX_SIZE, MAX_SIZE>>
    /\ resized.max_size = MAX_SIZE
    /\ resized.working_size = <<MAX_SIZE, MAX_SIZE>>

\* C13: when a dimension of the original exceeds the bound, the working
\* size fits exactly in bound x bound: its larger dimension is the bound,
\* the other one is at most the bound, and both are the original ones scaled
\* by bound / max(width, height), whole pixels apart at most (the square
\* case included).
C13_FitsExactlyInBound ==
    (WasResized /\ ~WithinBound) =>
        LET larger == Max(resized.size[1], resized.size[2])
        IN  /\ Max(resized.working_size[1], resized.working_size[2]) = resized.max_size
            /\ Min(resized.working_size[1], resized.working_size[2]) <= resized.max_size
            /\ \A i \in 1..2 :
                   /\ resized.working_size[i] * larger <= resized.size[i] * resized.max_size
                   /\ resized.size[i] * resized.max_size < (resized.working_size[i] + 1) * larger

\* round(n / d), halves to the even neighbour
Round(n, d) ==
    LET q == n \div d
        r == n % d
    IN  IF 2 * r < d THEN q
        ELSE IF 2 * r > d THEN q + 1
        ELSE IF q % 2 = 0 THEN q ELSE q + 1

\* C14: after every normalization the scale factor lies in (0, 1] and the
\* working size is round(original size * scale factor) in each component;
\* above the bound each dimension is round(dim * bound / max(width, height)).
C14_WorkingSizeIsRounded ==
    WasResized =>
        /\ resized.by = "ImagePreprocessor" =>
               LET sf == resized.scale_factor[1]
               IN  /\ 0 < sf.num /\ sf.num <= sf.den
                   /\ \A i \in 1..2 :
                          resized.working_size[i] = Round(resized.size[i] * sf.num, sf.den)
        /\ ~WithinBound =>
               \A i \in 1..2 :
                   resized.working_size[i] =
                       Round(resized.size[i] * resized.max_size,
                             Max(resized.size[1], resized.size[2]))

\* the requests whose conversion call returned
Converted(rq) == Mapped(rq) /\ mapper.requests[rq].result # None

\* the record the preprocessor held when request rq made its call
UsedRecord(rq) == mapper.requests[rq].used[1]

\* the limit of each of the four coordinates: original width for x1 and x2,
\* original height for y1 and y2
Limits(record) ==
    <<record.original_size[1][1], record.original_size[1][2],
      record.original_size[1][1], record.original_size[1][2]>>

\* r is x / scale_factor clamped to [0, limit]
IsDividedAndClamped(r, x, sf, limit) ==
    IF x * sf.den < 0
    THEN r.num = 0
    ELSE IF x * sf.den > limit * sf.num
         THEN r.num = limit * r.den
         ELSE r.num * sf.num = x * sf.den * r.den

\* C15: the conversion to original space divides each of the four
\* coordinates by the record's scale factor and clamps x to
\* [0, original width] and y to [0, original height]; with a 1600x1200
\* original at bound 1024 (scale 0.64, working size 1024x768) the box
\* (100, 100, 200, 200) becomes (156.25, 156.25, 312.5, 312.5).
C15_DivideThenClamp ==
    \A rq \in RequestIds :
        Converted(rq) =>
            LET record == UsedRecord(rq)
                bboxes == mapper.requests[rq].bboxes
                result == mapper.requests[rq].result[1]
            IN  /\ \A k \in 1..Len(bboxes) : \A i \in 1..4 :
                       IsDividedAndClamped(result[k][i], bboxes[k][i],
                                           record.scale_factor[1], Limits(record)[i])
                /\ (record.original_size = Some(<<1600, 1200>>)
                        /\ bboxes = <<<<100, 100, 200, 200>>>>) =>
                       /\ record.processed_size = Some(<<1024, 768>>)
                       /\ record.scale_factor = Some([num |-> 16, den |-> 25])
                       /\ result = <<<<[num |-> 625, den |-> 4], [num |-> 625, den |-> 4],
                                       [num |-> 625, den |-> 2], [num |-> 625, den |-> 2]>>>>

\* the box (100, 100, 200, 200) was converted with the record of the
\* 1600x1200 image
C15_Witness ==
    \E rq \in RequestIds :
        /\ Converted(rq)
        /\ UsedRecord(rq).original_size = Some(<<1600, 1200>>)
        /\ mapper.requests[rq].bboxes = <<<<100, 100, 200, 200>>>>
        /\ mapper.requests[rq].result[1][1][3] = [num |-> 625, den |-> 2]

\* the working-space coordinate x is the image of a coordinate of the
\* original between 0 and limit
FromInsideOriginal(x, sf, limit) == 0 <= x * sf.den /\ x * sf.den <= limit * sf.num

\* C16: round-trip boundedness: a working-space box that is a box of the
\* original image scaled by the scale factor is converted back to that box,
\* and for any input box whatsoever, negative or beyond-the-image
\* coordinates included, the result lies within
\* [0, original width] x [0, original height].
C16_RoundTripBounded ==
    \A rq \in RequestIds :
        Converted(rq) =>
            LET sf == UsedRecord(rq).scale_factor[1]
                limits == Limits(UsedRecord(rq))
                bboxes == mapper.requests[rq].bboxes
                result == mapper.requests[rq].result[1]
            IN  /\ Len(result) = Len(bboxes)
                /\ \A k \in 1..Len(bboxes) : \A i \in 1..4 :
                       /\ 0 <= result[k][i].num
                       /\ result[k][i].num <= limits[i] * result[k][i].den
                       /\ FromInsideOriginal(bboxes[k][i], sf, limits[i]) =>
                              result[k][i].num * sf.num = bboxes[k][i] * sf.den * result[k][i].den

\* a box with negative and beyond-the-image coordinates was converted with
\* the record of a scaled image, next to a box from inside the original
C16_Witness ==
    \E rq \in RequestIds :
        /\ Converted(rq)
        /\ UsedRecord(rq).original_size = Some(<<1024, 2048>>)
        /\ mapper.requests[rq].bboxes = <<<<-64, -32, 4096, 4096>>, <<100, 100, 200, 200>>>>
        /\ mapper.requests[rq].result[1][1] =
               <<[num |-> 0, den |-> 1], [num |-> 0, den |-> 1],
                 [num |-> 1024, den |-> 1], [num |-> 2048, den |-> 1]>>
        /\ mapper.requests[rq].result[1][2][1] = [num |-> 200, den |-> 1]

\* the list a returned conversion call handed back
ConvertedItems == agentOut.text.doc.items

\* the box out is the single-box conversion of the box bbox under the
\* record of the agent's preprocessor
IsConversionOf(out, bbox) ==
    /\ Len(out) = 4
    /\ \A i \in 1..4 :
           IsDividedAndClamped(out[i], bbox[i], agent.image_preprocessor.scale_factor[1],
                               Limits(agent.image_preprocessor)[i])

\* C17: the batch conversion applies the single-box conversion element by
\* element: the output has the length of the input and its i-th element is
\* the conversion of the i-th input. At the agent level the i-th output
\* keeps the label of the i-th item, an item without a bbox_2d is passed
\* through in its place, and the list handed in holds the same items when
\* the call is over.
C17_BatchIsElementWise ==
    /\ (agentOut.op = "map_list" /\ agentOut.kind = "returned") =>
           /\ Len(ConvertedItems) = Len(agentOut.boxes)
           /\ \A i \in 1..Len(agentOut.boxes) :
                  IsConversionOf(ConvertedItems[i], agentOut.boxes[i])
    /\ (agentOut.op = "convert" /\ agentOut.kind = "returned") =>
           /\ Len(ConvertedItems) = Len(agentOut.items)
           /\ agentOut.items_after = agentOut.items
           /\ \A i \in 1..Len(agentOut.items) :
                  /\ ConvertedItems[i].label = agentOut.items[i].label
                  /\ agentOut.items[i].bbox_2d = None => ConvertedItems[i] = agentOut.items[i]
                  /\ (agentOut.items[i].bbox_2d # None /\ agent.scale_info # None) =>
                         /\ ConvertedItems[i].bbox_2d # None
                         /\ IsConversionOf(ConvertedItems[i].bbox_2d[1],
                                           agentOut.items[i].bbox_2d[1])

\* the agent converted a list of a labelled box and an item without a box
\* under the record of a scaled image
C17_Witness ==
    /\ agentOut.op = "convert"
    /\ agentOut.kind = "returned"
    /\ agent.scale_info # None
    /\ agent.image_preprocessor.original_size = Some(<<1600, 1200>>)
    /\ agentOut.items = <<[bbox_2d |-> None, label |-> "handle"],
                          [bbox_2d |-> Some(<<100, 100, 200, 200>>), label |-> "body"]>>
    /\ ConvertedItems[2].label = "body"
    /\ ConvertedItems[2].bbox_2d[1][1] = [num |-> 625, den |-> 4]

\* the corners of a box of four numbers are in order
Ordered(bbox) == bbox[1] <= bbox[3] /\ bbox[2] <= bbox[4]

\* C18: swap normalization: every region the system accepts has x1 <= x2
\* and y1 <= y2 afterwards, a region arriving with exchanged corners being
\* put in order and not rejected, on every path by which a region enters:
\* segmentation results, detection results and the bounding boxes of the
\* pipeline.
C18_AcceptedRegionsAreOrdered ==
    /\ parsed.result \in {"segmentation_results", "detection_results"} =>
           \A i \in 1..Len(parsed.value) :
               (parsed.value[i].bbox_2d # None /\ Len(parsed.value[i].bbox_2d[1]) = 4) =>
                   Ordered(parsed.value[i].bbox_2d[1])
    /\ parsed.result = "objects" =>
           \A i \in 1..Len(parsed.value) : Ordered(parsed.value[i].bounding_box[1])

\* a stage has failed: its method raised, or scene analysis failed inside
\* analyze_scene
AStageFailed == exc # None \/ SceneAnalysisFailed

\* C19: no retry and absorbing failure: within one process call each stage
\* is invoked at most once, and once a stage has failed no stage, the failed
\* one or a later one, is invoked again in that call; the run stays failed
\* until process returns.
C19_NoRetryAbsorbingFailure ==
    [][/\ \A i, j \in 1..Len(hist') :
              (i < j /\ hist'[i].ev = "enter" /\ hist'[j].ev = "enter") =>
                  hist'[i].stage # hist'[j].stage
       /\ AStageFailed =>
              \A i \in (Len(hist) + 1)..Len(hist') : hist'[i].ev # "enter"
       /\ (exc # None /\ pc = "except") => (exc' = exc /\ pc' = "done")]_vars

\* C20: on failure no partial result of a completed stage is returned: the
\* failure result holds an empty mask (width = height = 0, no pixels) and a
\* placeholder strategy, also when scene analysis and strategy resolution
\* had completed before region extraction failed.
C20_FailureResultIsEmpty ==
    Failed =>
        /\ ret.kind = "returned"
        /\ ret.result # None
        /\ ret.result[1].mask.width = 0
        /\ ret.result[1].mask.height = 0
        /\ ret.result[1].mask.mask_array = << >>
        /\ ret.result[1].strategy_used # None
        /\ ret.result[1].strategy_used[1].target_object.object_id = "error"

(***************************************************************************)
(* Properties of validation, scenes, masks and the stage record            *)
(***************************************************************************)
\* the request has a bad shape: no file behind the path, a directory, an
\* unsupported format, or an instruction that is empty or all whitespace
BadRequest ==
    \/ req.path \in {"missing", "not_file", "bad_format"}
    \/ \A i \in 1..Len(req.instruction) : req.instruction[i] \in Whitespace

\* C21: a bad request shape is surfaced at once as a failure and not
\* retried: no stage is entered, completed stays empty and the recognition
\* capability is not called.
C21_BadRequestFailsAtOnce ==
    (pc # "idle" /\ BadRequest) =>
        /\ hist = << >>
        /\ pipeline.completed_stages = << >>
        /\ pc \in {"validate", "except", "done"}
        /\ pc \in {"except", "done"} => exc = Some(<<"input validation failed">>)
        /\ pc = "done" => ~(ret.kind = "returned" /\ ret.result[1].success)

\* a call with a readable image and a whitespace-only instruction has
\* ended in the validation failure
C21_Witness ==
    /\ pc = "done"
    /\ req.path = "ok"
    /\ req.readable
    /\ req.instruction = <<" ">>
    /\ exc = Some(<<"input validation failed">>)
    /\ hist = << >>

\* the max_size or the quality of the call is out of range
OutOfRangeConfiguration ==
    configured.max_size <= 0 \/ configured.quality < 1 \/ configured.quality > 100

\* C22: preprocess_image rejects an out-of-range configuration before doing
\* any work: with a bound <= 0 or a quality outside the range of lossy
\* compression the call fails, and the scale record the preprocessor holds
\* is the one it held before the call.
C22_BadConfigurationRejected ==
    (configured.called /\ OutOfRangeConfiguration) =>
        /\ configured.raised
        /\ configured.after = configured.before

\* C23: within one scene result every DetectedObject id is unique, whatever the
\* recognition response was, a response that repeats an id included.
C23_SceneIdsAreUnique ==
    scene_result # None =>
        \A i, j \in 1..Len(scene_result[1]) :
            i # j => scene_result[1][i].object_id # scene_result[1][j].object_id

\* C24: the mask of every successful region extraction has as width the length
\* of each of its rows and as height the number of its rows, also when the
\* response declares dimensions that disagree with its grid.
C24_MaskDimensionsMatchGrid ==
    (ret.kind = "returned" /\ ret.result[1].success) =>
        LET mask == ret.result[1].mask
        IN  /\ mask.height = Len(mask.mask_array)
            /\ \A r \in 1..Len(mask.mask_array) : Len(mask.mask_array[r]) = mask.width

IsPrefix(s, t) == Len(s) <= Len(t) /\ s = SubSeq(t, 1, Len(s))

\* C25: completed is at every moment a prefix of the three stage names in
\* their order; a name is in it only when the stage handed over its output
\* (the scene, the strategy, the successful result); a recorded error names
\* the stage right after the completed prefix, which is not in completed; a
\* process call starts from an empty completed and empty errors.
C25_StageRecordIsPrefix ==
    /\ IsPrefix(pipeline.completed_stages, StageOrder)
    /\ STAGE_SCENE \in Range(pipeline.completed_stages) => scene_result # None
    /\ STAGE_STRATEGY \in Range(pipeline.completed_stages) => strategy # None
    /\ STAGE_SEGMENT \in Range(pipeline.completed_stages) =>
          /\ ret.kind = "returned"
          /\ ret.result[1].success
    /\ Len(pipeline.errors) <= 1
    /\ pipeline.errors # << >> =>
          /\ Len(pipeline.completed_stages) < Len(StageOrder)
          /\ pipeline.errors[1][1] = StageOrder[Len(pipeline.completed_stages) + 1]
          /\ \A i \in 1..Len(StageOrder) :
                Mentions(pipeline.errors[1], StageOrder[i])
                    => i = Len(pipeline.completed_stages) + 1
    /\ pc = "validate" => pipeline.completed_stages = << >> /\ pipeline.errors = << >>

C25_Witness ==
    /\ pc = "done"
    /\ pipeline.completed_stages = <<STAGE_SCENE, STAGE_STRATEGY>>
    /\ pipeline.errors # << >>
    /\ pipeline.errors[1][1] = STAGE_SEGMENT

Cleaned == parsed.parser = "clean_json_from_markdown"

\* C26: the cleaner strips exactly one fenced block: an answer that wraps a
\* payload without a fence line in a json fence or in a plain fence is cleaned
\* to the payload up to surrounding whitespace, also when the opening fence
\* and the payload share a line; a bare payload comes back as it was; cleaning
\* the cleaner's own output changes nothing.
C26_CleanStripsOneFence ==
    Cleaned =>
        /\ strip(parsed.value[1]) = strip(parsed.raw[1])
        /\ (parsed.result = "bare" /\ parsed.raw[1] = strip(parsed.raw[1]))
              => parsed.value[1] = parsed.raw[1]
        /\ Len(parsed.value) = 2 => strip(parsed.value[2]) = strip(parsed.value[1])

\* the same statement for the answers whose opening fence has a line of its own
SeparateLineFenceIsStripped ==
    (Cleaned /\ parsed.result # "json fence, same line") =>
        /\ strip(parsed.value[1]) = strip(parsed.raw[1])
        /\ (parsed.result = "bare" /\ parsed.raw[1] = strip(parsed.raw[1]))
              => parsed.value[1] = parsed.raw[1]
        /\ Len(parsed.value) = 2 => strip(parsed.value[2]) = strip(parsed.value[1])

\* the object a strategy names is the first one of the scene with property P
FirstWith(objects, target, P(_)) ==
    \E i \in 1..Len(objects) :
        /\ objects[i] = target
        /\ P(target)
        /\ \A j \in 1..(i - 1) : ~P(objects[j])

\* C27: for a non-empty scene and any intent, a default one or one naming an
\* id the scene does not hold included, create_interaction_strategy returns a
\* strategy whose target is an object of the scene: the first one with the
\* intent's id; else the first of a category mapped to the intent type; else
\* one of highest confidence.
C27_StrategyExistsForNonEmptyScene ==
    (planned.called /\ planned.objects # << >>) =>
        /\ planned.strategy # None
        /\ LET target == planned.strategy[1].target_object
               objects == planned.objects
               id == planned.user_intent.target_object_id
               categories == Range(intent_to_category(planned.user_intent.intent_type))
               IdMatch(o) == id # None /\ o.object_id = id[1]
               CategoryMatch(o) == o.category \in categories
           IN  /\ target \in Range(objects)
               /\ IF \E o \in Range(objects) : IdMatch(o)
                  THEN FirstWith(objects, target, IdMatch)
                  ELSE IF \E o \in Range(objects) : CategoryMatch(o)
                       THEN FirstWith(objects, target, LAMBDA o : o.category = target.category)
                            /\ CategoryMatch(target)
                       ELSE \A o \in Range(objects) : o.confidence <= target.confidence

\* an id the scene does not hold and an intent type no object's category is
\* mapped to: the more confident of two objects is the target
C27_Witness ==
    /\ planned.called
    /\ Len(planned.objects) = 2
    /\ planned.user_intent = UserIntent("cut", Some("obj_9"))
    /\ planned.objects[1].confidence < planned.objects[2].confidence
    /\ planned.strategy # None
    /\ planned.strategy[1].target_object = planned.objects[2]

Safe(part) == part.safety_score > 50

\* C28: the part of a strategy is, when the table lists a part with a safety
\* score above 0.5 for the target's category, such a part and the one of
\* lowest grasp_priority among them; when it lists parts but none above 0.5,
\* a part of highest safety score; when it lists none, the generic "main
\* body" part. A part is always returned and the table is not modified.
C28_SafePartIsPreferred ==
    (planned.called /\ planned.objects # << >>) =>
        /\ planned.strategy # None
        /\ planned.functional_parts_knowledge = planned.loaded
        /\ LET part == planned.strategy[1].target_part
               listed == Range(knowledge_get(planned.loaded,
                                             planned.strategy[1].target_object.category))
           IN  IF listed = {}
               THEN part = FunctionalPart("main body", 70, 70, 1)
               ELSE /\ part \in listed
                    /\ IF \E q \in listed : Safe(q)
                       THEN /\ Safe(part)
                            /\ \A q \in listed : Safe(q) => part.grasp_priority <= q.grasp_priority
                       ELSE \A q \in listed : q.safety_score <= part.safety_score

\* a cup whose listed parts reach the threshold at best: the first of the two
\* parts at 0.5 is chosen, not the part of priority 1
C28_Witness ==
    /\ planned.called
    /\ planned.functional_parts_knowledge = CautiousKnowledge
    /\ planned.strategy # None
    /\ planned.strategy[1].target_object.category = "cup"
    /\ planned.strategy[1].target_part = FunctionalPart("rim", 50, 20, 2)

\* C29: for an original of width and height at least 1 and a bound of at
\* least 1, the working size a resize function produces has both dimensions
\* at least 1 and at most the bound, for extreme aspect ratios as well; the
\* resampling filter is never handed an empty size.
C29_WorkingSizeIsPositive ==
    (WasResized /\ resized.size[1] >= 1 /\ resized.size[2] >= 1 /\ resized.max_size >= 1) =>
        /\ ~resized.raised
        /\ \A i \in 1..2 :
               /\ resized.working_size[i] >= 1
               /\ ~WithinBound => resized.working_size[i] <= resized.max_size

\* C30: run numbers are never reused: every run directory is created under a
\* number strictly greater than that of every run directory existing at that
\* moment, so no two creations share a number, whether the runs follow one
\* another or interleave their get_next_run_number and create-directory steps.
C30_RunNumbersNeverReused ==
    /\ \A i \in 1..Len(saver.created) :
          \A n \in saver.created[i].existing : n < saver.created[i].run_number
    /\ \A i, j \in 1..Len(saver.created) :
          i # j => saver.created[i].run_number # saver.created[j].run_number

\* the same for the runs no other run's creation fell between the two calls of
SequentialRunsAreFresh ==
    \A i \in 1..Len(saver.created) :
        ~saver.created[i].interleaved =>
            /\ \A n \in saver.created[i].existing : n < saver.created[i].run_number
            /\ \A j \in 1..(i - 1) :
                  saver.created[j].run_number # saver.created[i].run_number

=============================================================================
